---- MODULE Spec2Model ----
(***************************************************************************)
(* Egypt Voter API: the service boundary of api.py (rate limiter,          *)
(* identifier validation, concurrency permit, response construction) and   *)
(* the retry controller of selenium_scraper.py.                            *)
(*                                                                         *)
(* Spec        the service boundary.  Requests are asyncio tasks on one    *)
(*             event loop: a task runs from one await to the next without  *)
(*             interleaving (variable running).  The scraper handle is the *)
(*             module global of api.py; the call at api.py:452 is taken    *)
(*             with every result shape and exception the handler           *)
(*             distinguishes.                                              *)
(* FairSpec    Spec under the scheduling of the event loop: strong         *)
(*             fairness of entering the with-block, weak fairness of the   *)
(*             synchronous call and of its return.                         *)
(* RateSpec    the boundary with one request at a time and two clients.    *)
(* ValidationSpec  the boundary with one request, both entry points and    *)
(*             every input string of the bounded alphabet.                 *)
(* ScrapeSpec  FreeElectionsScraper.scrape_electoral_data called directly  *)
(*             (as process_excel_file does), the page driver answering     *)
(*             each step nondeterministically.                             *)
(* FairScrapeSpec  ScrapeSpec with weak fairness of the steps of a call.    *)
(* LookupSpec  the boundary with one request and every result of the call  *)
(*             at api.py:452, every Registered record among them.          *)
(* DeployedSpec  the service as lifespan starts it: the handle is what     *)
(*             the constructor call of api.py:77-82 yields.                *)
(* HandlerSpec  lookup_national_id with a FreeElectionsScraper as handle,  *)
(*             the call at api.py:452 bound against its signature.         *)
(* NumeralSpec  convert_arabic_numerals applied to every bounded text.     *)
(* ExtractSpec the field extraction of extract_result_data on every page  *)
(*             structure and every capture of a number.                    *)
(* GateSpec    the boundary with lookups and health checks of one client.  *)
(* LinkedSpec  lookup_national_id and the retry controller together on    *)
(*             the one browser: the call at api.py:452 either fails to     *)
(*             bind (HandlerSpec) or is followed through the steps of      *)
(*             scrape_electoral_data, as for a method that takes the       *)
(*             keyword of the call.                                        *)
(***************************************************************************)
EXTENDS Integers, Sequences, FiniteSets, TLC

(***************************************************************************)
(* Bounds of the model.                                                    *)
(***************************************************************************)
\* api.py:61 sets 1000; scaled so that the quota is reached.
RATE_LIMIT_REQUESTS == 2
\* api.py:62 sets 60; scaled so that entries expire within MaxTime.
RATE_LIMIT_WINDOW == 2
\* Largest clock value; time.time() is read as an integer.
MaxTime == 4
\* Largest max_retries a scraper is built with (the default is 3).
MaxRetries == 3
\* Largest retry_delay a scraper is built with (the default is 2).
MaxDelay == 2
\* Whitespace characters put before and after an input.
MaxPad == 1
\* Input cores have IdLen - LenSlack .. IdLen + LenSlack characters.
LenSlack == 1
\* Longest text given to convert_arabic_numerals.
MaxText == 2

(***************************************************************************)
(* Program constants.                                                      *)
(***************************************************************************)
MAX_CONCURRENT_REQUESTS == 3
IdLen == 14
\* extract_result_data: a page of fewer characters is empty or incomplete.
MinPageLen == 10

Clients == {"ip1", "ip2"}
Calls == {"t1", "t2", "t3", "t4"}
None == "None"
Absent == "absent"

VARIABLES
    now,               \* time.time()
    rate_limit_store,  \* api.py:63, client -> sequence of timestamps
    scraper,           \* api.py:58, the module global: None or the handle
    request_semaphore, \* api.py:67, the semaphore's _value
    running,           \* the task the event loop is executing, or None
    call,              \* per request task: position and locals
    hist,              \* ghost: per client, its admissions of the trailing window
    lastrl,            \* ghost: the rate limiter's decision in the step just taken
    lastv,             \* ghost: the validation made in the step just taken
    sent,              \* ghost: the response sent in the step just taken
    max_retries,       \* FreeElectionsScraper.max_retries
    retry_delay,       \* FreeElectionsScraper.retry_delay
    sc,                \* scrape_electoral_data: position, locals, value returned
    driver,            \* the browser session: document context, field content
    trace,             \* ghost: what the invocation under way has done
    conv,              \* convert_arabic_numerals: its argument and its value
    fx                 \* the field extraction of extract_result_data: what
                       \* it is given and what it puts in the record

bvars == <<now, rate_limit_store, scraper, request_semaphore, running, call,
           hist, lastrl, lastv, sent>>
pvars == <<max_retries, retry_delay, sc, driver, trace, conv, fx>>
vars == <<bvars, pvars>>

(***************************************************************************)
(* Sequences.                                                              *)
(***************************************************************************)
SetMin(S) == CHOOSE x \in S : \A y \in S : x <= y
SetMax(S) == CHOOSE x \in S : \A y \in S : y <= x
Rep(ch, n) == [i \in 1..n |-> ch]

(***************************************************************************)
(* Rate limiter.                                                           *)
(***************************************************************************)
\* Mutants of check_rate_limit.
check_rate_limit_le(store, client_ip, current_time) ==
    LET window_start == current_time - RATE_LIMIT_WINDOW
        kept == SelectSeq(store[client_ip], LAMBDA ts : ts > window_start)
    IN  IF Len(kept) <= RATE_LIMIT_REQUESTS
        THEN [store |-> [store EXCEPT ![client_ip] = Append(kept, current_time)],
              allowed |-> TRUE]
        ELSE [store |-> [store EXCEPT ![client_ip] = kept], allowed |-> FALSE]

check_rate_limit_noprune(store, client_ip, current_time) ==
    LET kept == store[client_ip]
    IN  IF Len(kept) < RATE_LIMIT_REQUESTS
        THEN [store |-> [store EXCEPT ![client_ip] = Append(kept, current_time)],
              allowed |-> TRUE]
        ELSE [store |-> [store EXCEPT ![client_ip] = kept], allowed |-> FALSE]

\* Mutant of check_rate_limit: a rejected request is recorded as well.
check_rate_limit_records_all(store, client_ip, current_time) ==
    LET window_start == current_time - RATE_LIMIT_WINDOW
        kept == SelectSeq(store[client_ip], LAMBDA ts : ts > window_start)
    IN  [store |-> [store EXCEPT ![client_ip] = Append(kept, current_time)],
         allowed |-> Len(kept) < RATE_LIMIT_REQUESTS]

\* Mutant of check_rate_limit: the quota is counted over every client.
check_rate_limit_shared(store, client_ip, current_time) ==
    LET window_start == current_time - RATE_LIMIT_WINDOW
        kept == SelectSeq(store[client_ip], LAMBDA ts : ts > window_start)
        others == {k \in DOMAIN store : k # client_ip /\ store[k] # <<>>}
    IN  IF Len(kept) + Cardinality(others) < RATE_LIMIT_REQUESTS
        THEN [store |-> [store EXCEPT ![client_ip] = Append(kept, current_time)],
              allowed |-> TRUE]
        ELSE [store |-> [store EXCEPT ![client_ip] = kept], allowed |-> FALSE]

\* check_rate_limit: the store after the call and the value returned.
check_rate_limit(store, client_ip, current_time) ==
    LET window_start == current_time - RATE_LIMIT_WINDOW
        kept == SelectSeq(store[client_ip], LAMBDA ts : ts > window_start)
    IN  IF Len(kept) < RATE_LIMIT_REQUESTS
        THEN [store |-> [store EXCEPT ![client_ip] = Append(kept, current_time)],
              allowed |-> TRUE]
        ELSE [store |-> [store EXCEPT ![client_ip] = kept], allowed |-> FALSE]

(***************************************************************************)
(* Responses.  One record shape for every JSON body; Absent marks a key    *)
(* the body does not carry.                                                *)
(***************************************************************************)
Response(code, kind) ==
    [code |-> code, kind |-> kind, success |-> FALSE, retry_after |-> -1,
     national_id |-> <<>>, status |-> Absent, error |-> Absent, got |-> -1,
     retries_exhausted |-> Absent, data |-> Absent]

\* rate_limiting_middleware, the 429 body.
RateLimitedResponse ==
    [Response(429, "rate_limited") EXCEPT
        !.error = "Rate limit exceeded", !.retry_after = RATE_LIMIT_WINDOW]

(***************************************************************************)
(* Identifier validation.  A string is a sequence of characters; a         *)
(* character is a token: "1" an ASCII digit, "a" a letter, " " whitespace, *)
(* "ar3" ARABIC-INDIC DIGIT THREE (U+0663).                                *)
(***************************************************************************)
AsciiDigits == {"0", "1"}
\* str.strip() removes the characters for which str.isspace() holds.
IsSpace(ch) == ch = " "
\* str.isdigit() holds for every character with the Unicode digit property.
IsDigitChar(ch) == ch \in AsciiDigits \cup {"ar3"}
\* str.strip()
strip(s) ==
    LET keep == {i \in 1..Len(s) : ~IsSpace(s[i])}
    IN  IF keep = {} THEN <<>> ELSE SubSeq(s, SetMin(keep), SetMax(keep))
\* str.isdigit(): non-empty and every character a digit.
isdigit(s) == Len(s) > 0 /\ \A i \in 1..Len(s) : IsDigitChar(s[i])

Rejected(msg, got) == [ok |-> FALSE, value |-> <<>>, msg |-> msg, got |-> got]
Accepted(v) == [ok |-> TRUE, value |-> v, msg |-> Absent, got |-> -1]

\* Mutant of validate_national_id: the digit check comes first.
validate_national_id_nolen(v0) ==
    LET v == strip(v0)
    IN  IF ~isdigit(v) THEN Rejected("digits_only", -1) ELSE Accepted(v)

\* NationalIDRequest.validate_national_id: the value returned, or the
\* ValueError raised (msg, and the length the message states).
validate_national_id(v0) ==
    LET v == strip(v0)
    IN  IF Len(v) # IdLen THEN Rejected("length", Len(v))
        ELSE IF ~isdigit(v) THEN Rejected("digits_only", -1)
        ELSE Accepted(v)

\* POST /lookup: the body is validated into a NationalIDRequest before the
\* handler runs; a failure is answered by validation_exception_handler.
PostValidation(input) ==
    LET r == validate_national_id(input)
    IN  [ok |-> r.ok, value |-> r.value,
         resp |-> [Response(400, "validation_error") EXCEPT
                      !.error = r.msg, !.got = r.got]]

\* Mutant of GetValidation: the path parameter is passed on as received.
GetValidationRaw(input) ==
    [ok |-> TRUE, value |-> input, resp |-> Response(400, "http_error")]

\* GET /lookup/{national_id}: lookup_national_id_get builds the same
\* NationalIDRequest; its ValueError becomes HTTPException(400, str(e)).
GetValidation(input) ==
    LET r == validate_national_id(input)
    IN  [ok |-> r.ok, value |-> r.value,
         resp |-> [Response(400, "http_error") EXCEPT
                      !.error = r.msg, !.got = r.got]]

Validation(entry, input) ==
    IF entry = "POST" THEN PostValidation(input) ELSE GetValidation(input)

\* The inputs tried: a core of digits, with at most one other character,
\* between runs of whitespace.
Lens == (IdLen - LenSlack)..(IdLen + LenSlack)
Core(n, p, ch) == [i \in 1..n |-> IF i = p THEN ch ELSE "1"]
Cores == {Core(n, 0, "1") : n \in Lens}
         \cup {Core(n, n, ch) : n \in Lens, ch \in {"a", "ar3"}}
         \cup {Core(n, 2, " ") : n \in Lens}
Inputs == {Rep(" ", l) \o core \o Rep(" ", t) :
              l \in 0..MaxPad, t \in 0..MaxPad, core \in Cores}

\* Inputs that drive the handler where validation is not the subject.
FewInputs == {Core(IdLen, 0, "1"), Core(IdLen - 1, 0, "1")}

NewCall == [pc |-> "idle", entry |-> None, nid |-> <<>>, permit |-> FALSE]

(***************************************************************************)
(* The call at api.py:452 as the handler sees it: a result dict, None, or  *)
(* an exception.                                                           *)
(***************************************************************************)
\* The fields of result['data'] besides status and district.
NoFields == [electoral_center |-> "", address |-> "",
             subcommittee_number |-> "", electoral_list_number |-> ""]
Returned(success, status, district, error, retx) ==
    [type |-> "return", success |-> success, status |-> status,
     district |-> district, error |-> error, retries_exhausted |-> retx,
     exc |-> Absent, fields |-> NoFields]
Raised(exc) ==
    [type |-> "raise", success |-> FALSE, status |-> Absent,
     district |-> Absent, error |-> Absent, retries_exhausted |-> FALSE,
     exc |-> exc, fields |-> NoFields]
ReturnedNone == [Raised(Absent) EXCEPT !.type = "none"]

\* api.py:30-36, the five district names, transliterated.
ALLOWED_DISTRICTS == {"qism al-sharq", "qism al-arab", "qism al-dawahi",
                      "qism awwal bur fuad", "qism thani bur fuad"}
\* The districts a record is given: none, one of the list, one outside it.
Districts == {"", "qism al-sharq", "qism al-manakh"}
ScrapeOutcomes ==
    {Returned(TRUE, "success", d, Absent, FALSE) : d \in Districts}
    \cup {Returned(TRUE, st, Absent, Absent, FALSE) :
              st \in {"underage", "not_registered", "unknown"}}
    \cup {Returned(FALSE, Absent, Absent, "scrape_error", x) : x \in BOOLEAN}
    \cup {ReturnedNone}
    \cup {Raised(e) : e \in {"ValueError", "TimeoutError", "ConnectionError",
                              "TypeError"}}

\* Mutant of IsOutOfDistrict: an empty district is outside the list too.
IsOutOfDistrictStrict(district) == district \notin ALLOWED_DISTRICTS

\* api.py:476: district and district not in ALLOWED_DISTRICTS.
IsOutOfDistrict(district) == district # "" /\ district \notin ALLOWED_DISTRICTS

\* Lines 482-488: OutOfDistrictData.
OutOfDistrictData(r) ==
    [message |-> "out of district notice", reason |-> "out_of_district",
     district |-> r.district,
     electoral_center |-> r.fields.electoral_center,
     address |-> r.fields.address]

\* Lines 501-507: RegisteredVoterData.
RegisteredVoterData(r) ==
    [electoral_center |-> r.fields.electoral_center,
     district |-> r.district,
     address |-> r.fields.address,
     subcommittee_number |-> r.fields.subcommittee_number,
     electoral_list_number |-> r.fields.electoral_list_number]

\* Lines 521-524 and 538-541: UnderageData, NotRegisteredData.
PhraseNotice(status) == [message |-> status, reason |-> status]

\* Mutant of ExhaustedFlag: the flag is passed on as it is.
ExhaustedFlagAsIs(retries_exhausted) ==
    IF retries_exhausted THEN "true" ELSE "false"

\* Line 573: retries_exhausted if retries_exhausted else None; the body is
\* dumped with exclude_none, so None leaves the key out.
ExhaustedFlag(retries_exhausted) ==
    IF retries_exhausted THEN "true" ELSE Absent

\* lookup_national_id, lines 455-638: the response to each outcome.
HandleResult(national_id, r) ==
    LET ok(status, data) == [Response(200, "success") EXCEPT
                          !.success = TRUE, !.national_id = national_id,
                          !.status = status, !.data = data]
        err(msg, retx) == [Response(200, "error") EXCEPT
                          !.national_id = national_id, !.error = msg,
                          !.retries_exhausted = retx]
    IN  CASE r.type = "none" -> err("scraper returned no data", Absent)
          [] r.type = "raise" /\ r.exc = "ValueError" ->
                [Response(400, "http_error") EXCEPT !.error = "ValueError"]
          [] r.type = "raise" /\ r.exc = "TimeoutError" ->
                err("Request timeout", "true")
          [] r.type = "raise" /\ r.exc = "ConnectionError" ->
                err("Network connection error", "true")
          [] r.type = "raise" -> err("Unexpected server error", Absent)
          [] r.success /\ r.status = "success" ->
                IF IsOutOfDistrict(r.district)
                THEN ok("out_of_district", OutOfDistrictData(r))
                ELSE ok("registered", RegisteredVoterData(r))
          [] r.success /\ r.status = "underage" ->
                ok("underage", PhraseNotice("underage"))
          [] r.success /\ r.status = "not_registered" ->
                ok("not_registered", PhraseNotice("not_registered"))
          [] r.success -> err("Unknown status", Absent)
          [] OTHER -> err(r.error, ExhaustedFlag(r.retries_exhausted))

\* Mutant of PermitsAfterExit: the permit is given back only when the
\* body of the with-block returns.
PermitsAfterExitOnReturn(value, r) ==
    IF r.type = "raise" THEN value ELSE value + 1

\* `async with request_semaphore`, __aexit__: release() on every way out
\* of the block (api.py:449).
PermitsAfterExit(value, r) == value + 1

\* Mutant of PermitsAfterEnter: the block is entered without acquire().
PermitsAfterEnterNoAcquire(value) == value

\* `async with request_semaphore`, __aenter__: acquire() (api.py:449).
PermitsAfterEnter(value) == value - 1

(***************************************************************************)
(* FreeElectionsScraper.                                                   *)
(***************************************************************************)
NoError == [msg |-> "None", at |-> -1]
\* A value of last_error: the message, and (ghost) the attempt that set it.
Error(msg, attempt) == [msg |-> msg, at |-> attempt]

NotCalled == [pc |-> "not_called", national_id |-> <<>>, attempt |-> 0,
              last_error |-> NoError, result |-> None]
\* No page has been read.
NoPage == [readable |-> FALSE, len |-> -1, underage |-> FALSE, notreg |-> FALSE,
           found |-> {}, raises |-> None, district |-> ""]
\* faults: the steps at which the driver raised in the step just taken.
NoTrace == [log |-> <<>>, sleeps |-> <<>>, navs |-> 0, page |-> NoPage,
            faults |-> {}, recoveries |-> 0]

\* convert_arabic_numerals has not been called.
NotConverted == [called |-> FALSE, text |-> <<>>, result |-> <<>>]

\* The browser on a freshly loaded page: the top-level document is the
\* context, the input holds nothing (typed) and nothing has been
\* submitted.
FreshPage == [in_frame |-> FALSE, typed |-> <<>>, submitted |-> <<>>]

\* The text of the result page, by what extract_result_data reads of it:
\* whether the body can be read, the length of the stripped text, and
\* whether each terminal phrase occurs in it; found holds the fields the
\* extraction of lines 346-533 finds a value for, raises the text of an
\* exception raised in those lines and caught at line 542 (None: none),
\* district the value of the district line when it is found.
Page(readable, len, underage, notreg) ==
    [readable |-> readable, len |-> len, underage |-> underage,
     notreg |-> notreg, found |-> {}, raises |-> None,
     district |-> "qism al-sharq"]

\* Lines 338-342: the five fields of a record.
RecordFields == {"electoral_center", "district", "address",
                 "subcommittee_number", "electoral_list_number"}
\* str(e) at line 546, by whether line 257 finds 'parse' or 'extract' in
\* it.
ExceptionTexts == {"exception text holding parse or extract",
                   "exception text"}
Pages ==
    {Page(FALSE, 0, FALSE, FALSE)}
    \cup {Page(TRUE, n, FALSE, FALSE) : n \in {0, MinPageLen - 1, MinPageLen}}
    \cup {Page(TRUE, 4 * MinPageLen, u, n) : u \in BOOLEAN, n \in BOOLEAN}
    \cup {[Page(TRUE, 4 * MinPageLen, FALSE, FALSE) EXCEPT !.found = f] :
             f \in {{"district"}, RecordFields}}
    \cup {[Page(TRUE, 4 * MinPageLen, FALSE, FALSE) EXCEPT !.raises = t] :
             t \in ExceptionTexts}

\* A result dict.  keys are the keys of its 'data' dict, error_message the
\* phrase it carries, filled the fields of 'data' that are not ''; extracted
\* (ghost) tells whether the field extraction of lines 334-533 ran.  attempts is the number of attempts the dict
\* states: the text of line 282 states max_retries, no other dict built in
\* lines 253-264, 300-331 or 537-547 states a number (-1).
ResultData(success, status, error) ==
    [success |-> success, status |-> status, error |-> error,
     last_error |-> NoError, retries_exhausted |-> Absent, attempts |-> -1,
     keys |-> {}, error_message |-> Absent, extracted |-> FALSE,
     filled |-> {}, district |-> ""]

\* The 'data' of a terminal outcome, lines 318-321 and 328-331.
PhraseData(status) ==
    [ResultData(TRUE, status, Absent) EXCEPT
        !.keys = {"status", "error_message"}, !.error_message = status]

\* The 'data' of a Registered record, lines 336-343.
RecordKeys == {"status", "electoral_center", "district", "address",
               "subcommittee_number", "electoral_list_number"}
RecordData ==
    [ResultData(TRUE, "success", Absent) EXCEPT
        !.keys = RecordKeys, !.extracted = TRUE]

\* The field extraction has not run.
NotExtracted ==
    [called |-> FALSE, kind |-> None, capture |-> <<>>, field |-> <<>>,
     page |-> [structural |-> [f \in RecordFields |-> "value"],
               textual |-> {}],
     data |-> [f \in RecordFields |-> ""], success |-> FALSE]

\* __init__: the scraper as built, before any call.
ScraperBuilt(retries, delay) ==
    /\ max_retries = retries
    /\ retry_delay = delay
    /\ sc = NotCalled
    /\ driver = FreshPage
    /\ trace = NoTrace
    /\ conv = NotConverted
    /\ fx = NotExtracted

\* Lines 336-547: the record with the fields the extraction found, or the
\* failure of line 544 when an exception reached line 542.
ExtractFields(page) ==
    IF page.raises # None
    THEN ResultData(FALSE, Absent, page.raises)
    ELSE [RecordData EXCEPT !.filled = page.found,
                            !.district = IF "district" \in page.found
                                         THEN page.district ELSE ""]

\* Mutant of extract_result_data: the dict of a terminal phrase carries no
\* status.
extract_result_data_untagged(page) ==
    IF ~page.readable
    THEN ResultData(FALSE, Absent, "Failed to read page content")
    ELSE IF page.len < MinPageLen
    THEN ResultData(FALSE, Absent, "Page content is empty or incomplete")
    ELSE IF page.underage \/ page.notreg
    THEN [PhraseData(Absent) EXCEPT !.keys = {"error_message"}]
    ELSE ExtractFields(page)

\* Mutant of extract_result_data: the not-registered phrase is looked for
\* first.
extract_result_data_notreg_first(page) ==
    IF ~page.readable
    THEN ResultData(FALSE, Absent, "Failed to read page content")
    ELSE IF page.len < MinPageLen
    THEN ResultData(FALSE, Absent, "Page content is empty or incomplete")
    ELSE IF page.notreg THEN PhraseData("not_registered")
    ELSE IF page.underage THEN PhraseData("underage")
    ELSE ExtractFields(page)

\* Mutant of extract_result_data: the length of the text is not looked at.
extract_result_data_any_length(page) ==
    IF ~page.readable
    THEN ResultData(FALSE, Absent, "Failed to read page content")
    ELSE IF page.underage THEN PhraseData("underage")
    ELSE IF page.notreg THEN PhraseData("not_registered")
    ELSE ExtractFields(page)

\* extract_result_data, lines 294-547.
extract_result_data(page) ==
    IF ~page.readable
    THEN ResultData(FALSE, Absent, "Failed to read page content")
    ELSE IF page.len < MinPageLen
    THEN ResultData(FALSE, Absent, "Page content is empty or incomplete")
    ELSE IF page.underage THEN PhraseData("underage")
    ELSE IF page.notreg THEN PhraseData("not_registered")
    ELSE ExtractFields(page)

\* Mutant of IsExtractionError: the empty-page text counts as well.
IsExtractionErrorOrEmpty(error) ==
    error \in {"exception text holding parse or extract",
               "Page content is empty or incomplete"}

\* Line 257: 'parse' in error.lower() or 'extract' in error.lower().  Neither
\* fixed text of extract_result_data holds one of the two words; only the
\* text of an exception caught at line 542 can.
IsExtractionError(error) == error = "exception text holding parse or extract"

\* Mutant of ReturnsResult: a record with no field filled is retried.
ReturnsResultUnlessBlank(result_data) ==
    \/ /\ result_data.success
       /\ result_data.status = "success" => result_data.filled # {}
    \/ (~result_data.success /\ ~IsExtractionError(result_data.error))

\* Mutant of ReturnsResult: only a Registered record ends the call.
ReturnsResultRegisteredOnly(result_data) ==
    (result_data.success /\ result_data.status = "success")
    \/ (~result_data.success /\ ~IsExtractionError(result_data.error))

\* Lines 251-264: the result of the attempt is returned at once when it is
\* a success and when its error is not an extraction error; otherwise the
\* loop continues.
ReturnsResult(result_data) ==
    result_data.success \/ ~IsExtractionError(result_data.error)

\* Lines 280-285.
RetriesExhausted(retries, last_error) ==
    [ResultData(FALSE, Absent, "Failed after attempts") EXCEPT
        !.last_error = last_error, !.retries_exhausted = "true",
        !.attempts = retries]

\* Mutant of IsLastAttempt.
IsLastAttemptEarly(attempt, retries) == attempt >= retries - 2
\* Line 275: attempt == self.max_retries - 1.
IsLastAttempt(attempt, retries) == attempt = retries - 1

\* Mutant of OnLocateTimeout: last_error keeps its earlier value.
OnLocateTimeoutStale(step, attempt, previous) == previous
\* Lines 194-196, 209-211, 223-225: the message recorded when the wait for
\* the frame, the input or the submit control times out.
OnLocateTimeout(step, attempt, previous) ==
    Error(CASE step = "frame" -> "Could not find iframe"
            [] step = "input" -> "Could not find national ID input field"
            [] OTHER -> "Could not find submit button", attempt)

\* switch_to.default_content(); an error it raises is swallowed.
DefaultContent(ok) == [driver EXCEPT !.in_frame = IF ok THEN FALSE ELSE @]

Logged(entry) == [trace EXCEPT !.log = Append(@, entry)]
Faulted(t, steps) == [t EXCEPT !.faults = steps]

(***************************************************************************)
(* Exceptions of the driver and the except clauses around each step.       *)
(***************************************************************************)
\* selenium's TimeoutException, and any other WebDriverException.
DriverExceptions == {"TimeoutException", "WebDriverException"}
ExcOf(outcome) ==
    IF outcome = "timeout" THEN "TimeoutException" ELSE "WebDriverException"

\* Mutant of Catches: every clause catches TimeoutException only.
CatchesTimeoutOnly(clause, exc) == exc = "TimeoutException"

\* `except:` and `except Exception` catch both; `except TimeoutException`
\* catches that class.
Catches(clause, exc) == clause \in {"bare", "Exception"} \/ clause = exc

\* The except clause of the try statement immediately around each step:
\* lines 182, 194, 209, 223, 238, 298, 542, 362-476 and 199-271.
InnerClause(step) ==
    CASE step \in {"navigate", "read", "extract"} -> "Exception"
      [] step \in {"frame", "input", "submit"} -> "TimeoutException"
      [] OTHER -> "bare"

\* Where an exception raised at a step is caught: by the clause around
\* the step, by `except Exception` of the attempt (line 266), or nowhere.
CaughtAt(step, exc) ==
    IF Catches(InnerClause(step), exc) THEN "inner"
    ELSE IF Catches("Exception", exc) THEN "outer"
    ELSE "escapes"

\* default_content raised and the bare except around it did not catch.
CleanupEscapes(dc) ==
    ~dc /\ CaughtAt("default_content", "WebDriverException") # "inner"

\* The exception leaves scrape_electoral_data.
Raise == sc' = [sc EXCEPT !.pc = "raised"]

\* `continue`: the next iteration of the for loop.
Continue(err) ==
    sc' = [sc EXCEPT !.pc = "loop", !.attempt = @ + 1, !.last_error = err]

\* Mutant of OuterExcept: the loop is left at the first such exception.
OuterExceptGivesUp(err) ==
    sc' = [sc EXCEPT !.pc = "exhausted", !.last_error = err]

\* Lines 266-276: an exception other than the ones caught at the step.
OuterExcept(err) ==
    IF IsLastAttempt(sc.attempt, max_retries)
    THEN sc' = [sc EXCEPT !.pc = "exhausted", !.last_error = err]
    ELSE Continue(err)

\* scraper.scrape_electoral_data(national_id) is called.
Invoke(national_id) ==
    /\ sc.pc \in {"not_called", "returned"}
    /\ sc' = [NotCalled EXCEPT !.pc = "loop", !.national_id = national_id]
    /\ trace' = NoTrace
    /\ UNCHANGED <<conv, fx, max_retries, retry_delay, driver>>
    /\ UNCHANGED bvars

\* Mutant of LoopContinues: one iteration more.
LoopContinuesOneMore(attempt, retries) == attempt <= retries
\* Line 168: for attempt in range(self.max_retries).
LoopContinues(attempt, retries) == attempt < retries

\* The delay doubled once more than line 172 does.
DelayDoubled(attempt, base) == base * 2 ^ attempt
\* Line 172: delay = self.retry_delay * (2 ** (attempt - 1)), attempt
\* counted from 0.
Delay(attempt, base) == base * 2 ^ (attempt - 1)

\* Line 168 and lines 170-174: the loop takes its next value, and before
\* every attempt but the first calls time.sleep(delay); or the loop is
\* over.
LoopTop ==
    /\ sc.pc = "loop"
    /\ IF LoopContinues(sc.attempt, max_retries)
       THEN /\ sc' = [sc EXCEPT !.pc = IF sc.attempt > 0 THEN "sleep"
                                       ELSE "navigate"]
            /\ trace' = IF sc.attempt > 0
                  THEN [Faulted(trace, {}) EXCEPT !.sleeps =
                          Append(@, Delay(sc.attempt, retry_delay))]
                  ELSE Faulted(trace, {})
       ELSE /\ sc' = [sc EXCEPT !.pc = "exhausted"]
            /\ trace' = Faulted(trace, {})
    /\ UNCHANGED <<conv, fx, max_retries, retry_delay, driver>>
    /\ UNCHANGED bvars

\* Line 174: time.sleep(delay) returns.
Sleep ==
    /\ sc.pc = "sleep"
    /\ sc' = [sc EXCEPT !.pc = "navigate"]
    /\ UNCHANGED <<trace, conv, fx, max_retries, retry_delay, driver>>
    /\ UNCHANGED bvars

\* Mutant of ReturnsToTop: the handler of line 266 does not call
\* default_content.
ReturnsToTopNotOuter(where) == where \in {"frame", "input", "submit", "read"}
\* The places where an attempt ends that call switch_to.default_content:
\* the three timeout handlers (lines 197-200, 212-215, 226-229), the read
\* path (lines 245-248) and the handler of line 266 (lines 269-272); the
\* handler of a failed navigation (lines 182-185) does not.
ReturnsToTop(where) == where \in {"frame", "input", "submit", "read", "outer"}

\* The driver and the trace after the attempt ended at `where`.
Recover(where, dc) ==
    IF ReturnsToTop(where) THEN DefaultContent(dc) ELSE driver
Recovered(t, where) ==
    IF ReturnsToTop(where) THEN [t EXCEPT !.recoveries = @ + 1] ELSE t

\* Lines 179-185: driver.get(INQUIRY_URL).
Navigate(ok) ==
    /\ sc.pc = "navigate"
    /\ IF ok
       THEN /\ sc' = [sc EXCEPT !.pc = "frame"]
            /\ driver' = FreshPage
            /\ trace' = [Faulted(trace, {}) EXCEPT !.navs = @ + 1]
       ELSE /\ CASE CaughtAt("navigate", "WebDriverException") = "inner" ->
                      Continue(Error("Navigation error", sc.attempt))
                 [] CaughtAt("navigate", "WebDriverException") = "outer" ->
                      OuterExcept(Error("exception", sc.attempt))
                 [] OTHER -> Raise
            /\ driver' = Recover("navigate", TRUE)
            /\ trace' = [Recovered(Faulted(Logged("navigation"), {"navigate"}),
                                   "navigate")
                            EXCEPT !.navs = @ + 1]
    /\ UNCHANGED <<conv, fx, max_retries, retry_delay>>
    /\ UNCHANGED bvars

\* The steps that raised when `step` failed and default_content followed.
Cleanup(step, dc) == {step} \cup (IF dc THEN {} ELSE {"default_content"})

\* Lines 190-230: one of the three locate steps: the wait finds the
\* element and acts on it, times out, or another exception is raised.
Locate(step, next, outcome, dc) ==
    /\ sc.pc = step
    /\ CASE outcome = "ok" ->
              /\ sc' = [sc EXCEPT !.pc = next]
              /\ driver' = CASE step = "frame" -> [driver EXCEPT !.in_frame = TRUE]
                              [] step = "input" -> [driver EXCEPT !.typed = sc.national_id]
                              [] OTHER -> [driver EXCEPT !.submitted = driver.typed]
              /\ trace' = Faulted(trace, {})
         [] outcome # "ok" /\ CaughtAt(step, ExcOf(outcome)) = "inner" ->
              /\ IF CleanupEscapes(dc) THEN Raise
                 ELSE Continue(OnLocateTimeout(step, sc.attempt, sc.last_error))
              /\ driver' = Recover(step, dc)
              /\ trace' = Recovered(Faulted(Logged(step), Cleanup(step, dc)),
                                    step)
         [] outcome # "ok" /\ CaughtAt(step, ExcOf(outcome)) = "outer" ->
              /\ IF CleanupEscapes(dc) THEN Raise
                 ELSE OuterExcept(Error("exception", sc.attempt))
              /\ driver' = Recover("outer", dc)
              /\ trace' = Recovered(
                    Faulted(Logged(CASE step = "frame" -> "frame_exception"
                                     [] step = "input" -> "input_exception"
                                     [] OTHER -> "submit_exception"),
                            Cleanup(step, dc)), "outer")
         [] OTHER ->
              /\ Raise
              /\ driver' = driver
              /\ trace' = Faulted(Logged("raised"), {step})
    /\ UNCHANGED <<conv, fx, max_retries, retry_delay>>
    /\ UNCHANGED bvars

\* Lines 232-264: the settle sleep, the best-effort wait (its failure is
\* ignored), extract_result_data, default_content, and the decision.
\* `raised` holds "wait" when the best-effort wait raises and "lookup" when
\* the element lookups of the field extraction raise; the faults of the
\* step hold "extract" when an exception reached line 542.
ReadResult(page, raised, dc) ==
    /\ sc.pc = "read"
    /\ LET result_data == extract_result_data(page)
           faults == (raised \cap (IF result_data.extracted
                                   THEN {"wait", "lookup"} ELSE {"wait"}))
                     \cup (IF page.readable THEN {} ELSE {"read"})
                     \cup (IF result_data.error \in ExceptionTexts
                           THEN {"extract"} ELSE {})
                     \cup (IF dc THEN {} ELSE {"default_content"})
           escapes == \/ \E step \in faults \ {"default_content"} :
                            CaughtAt(step, "WebDriverException") # "inner"
                      \/ CleanupEscapes(dc)
       IN  /\ IF escapes THEN Raise
              ELSE IF ReturnsResult(result_data)
              THEN sc' = [sc EXCEPT !.pc = "returned", !.result = result_data]
              ELSE Continue(Error(result_data.error, sc.attempt))
           /\ trace' = [Recovered(Faulted(Logged(IF result_data.success
                                                 THEN result_data.status
                                                 ELSE "read_failed"), faults),
                                  "read")
                           EXCEPT !.page = page]
    /\ driver' = Recover("read", dc)
    /\ UNCHANGED <<conv, fx, max_retries, retry_delay>>
    /\ UNCHANGED bvars

\* Lines 278-285: the loop is over without a result.
Exhausted ==
    /\ sc.pc = "exhausted"
    /\ sc' = [sc EXCEPT !.pc = "returned",
                        !.result = RetriesExhausted(max_retries, sc.last_error)]
    /\ trace' = Faulted(trace, {})
    /\ UNCHANGED <<conv, fx, max_retries, retry_delay, driver>>
    /\ UNCHANGED bvars

(***************************************************************************)
(* The service boundary.                                                   *)
(***************************************************************************)
NoGhost == [kind |-> None]
Ghost(rl, v, s) == lastrl' = rl /\ lastv' = v /\ sent' = s
\* A response, with the identifier the call was validated to.
Sent(c, resp, r) ==
    [kind |-> "response", c |-> c, resp |-> resp, outcome |-> r,
     nid |-> call[c].nid]
NoOutcome == [Raised(Absent) EXCEPT !.type = "not_called"]
Trailing(s, t) == SelectSeq(s, LAMBDA ts : ts > t - RATE_LIMIT_WINDOW)

Init ==
    /\ now = 0
    /\ rate_limit_store = [k \in Clients |-> <<>>]
    /\ scraper \in {None, "FreeElectionsScraper"}
    /\ request_semaphore = MAX_CONCURRENT_REQUESTS
    /\ running = None
    /\ call = [c \in Calls |-> NewCall]
    /\ hist = [k \in Clients |-> <<>>]
    /\ lastrl = NoGhost
    /\ lastv = NoGhost
    /\ sent = NoGhost
    /\ ScraperBuilt(3, 2)

\* time.time() advances.
Tick ==
    /\ now < MaxTime
    /\ now' = now + 1
    /\ hist' = [k \in Clients |-> Trailing(hist[k], now')]
    /\ Ghost(NoGhost, NoGhost, NoGhost)
    /\ UNCHANGED <<rate_limit_store, scraper, request_semaphore, running, call>>
    /\ UNCHANGED pvars

\* Mutant of rate_limiting_middleware: a health check is handed on
\* without the rate-limit check.
rate_limiting_middleware_lookups_only(c, client_ip, entry) ==
    /\ running = None
    /\ call[c].pc = "idle"
    /\ LET r == IF entry = "health"
                THEN [store |-> rate_limit_store, allowed |-> TRUE]
                ELSE check_rate_limit(rate_limit_store, client_ip, now)
       IN  /\ rate_limit_store' = r.store
           /\ hist' = IF r.allowed /\ entry # "health"
                      THEN [hist EXCEPT ![client_ip] = Append(@, now)]
                      ELSE hist
           /\ call' = [call EXCEPT ![c] =
                  IF r.allowed
                  THEN [NewCall EXCEPT !.pc = "routed", !.entry = entry]
                  ELSE NewCall]
           /\ Ghost([kind |-> "decision", client |-> client_ip, at |-> now,
                     window |-> hist[client_ip], allowed |-> r.allowed,
                     stored |-> Len(rate_limit_store[client_ip])],
                    NoGhost,
                    IF r.allowed THEN NoGhost
                    ELSE Sent(c, RateLimitedResponse, NoOutcome))
    /\ UNCHANGED <<now, scraper, request_semaphore, running>>
    /\ UNCHANGED pvars

\* rate_limiting_middleware: a request of client_ip arrives; it is answered
\* 429 or handed to call_next.
rate_limiting_middleware(c, client_ip, entry) ==
    /\ running = None
    /\ call[c].pc = "idle"
    /\ LET r == check_rate_limit(rate_limit_store, client_ip, now)
       IN  /\ rate_limit_store' = r.store
           /\ hist' = IF r.allowed
                      THEN [hist EXCEPT ![client_ip] = Append(@, now)]
                      ELSE hist
           /\ call' = [call EXCEPT ![c] =
                  IF r.allowed
                  THEN [NewCall EXCEPT !.pc = "routed", !.entry = entry]
                  ELSE NewCall]
           /\ Ghost([kind |-> "decision", client |-> client_ip, at |-> now,
                     window |-> hist[client_ip], allowed |-> r.allowed,
                     stored |-> Len(rate_limit_store[client_ip])],
                    NoGhost,
                    IF r.allowed THEN NoGhost
                    ELSE Sent(c, RateLimitedResponse, NoOutcome))
    /\ UNCHANGED <<now, scraper, request_semaphore, running>>
    /\ UNCHANGED pvars

\* The identifier of the request is validated: by pydantic before
\* lookup_national_id (POST), by lookup_national_id_get (GET).
Validate(c, input) ==
    /\ running = None
    /\ call[c].pc = "routed"
    /\ call[c].entry \in {"POST", "GET"}
    /\ LET v == Validation(call[c].entry, input)
       IN  /\ call' = [call EXCEPT ![c] =
                  IF v.ok THEN [@ EXCEPT !.pc = "validated", !.nid = v.value]
                  ELSE NewCall]
           /\ Ghost(NoGhost,
                    [kind |-> "validation", entry |-> call[c].entry,
                     input |-> input, ok |-> v.ok, value |-> v.value, c |-> c],
                    IF v.ok THEN NoGhost ELSE Sent(c, v.resp, NoOutcome))
    /\ UNCHANGED <<now, rate_limit_store, scraper, request_semaphore,
                   running, hist>>
    /\ UNCHANGED pvars

\* health_check, api.py:409-415: GET /health is answered at once.
health_check(c) ==
    /\ running = None
    /\ call[c].pc = "routed"
    /\ call[c].entry = "health"
    /\ call' = [call EXCEPT ![c] = NewCall]
    /\ Ghost(NoGhost, NoGhost,
             Sent(c, [Response(200, "health") EXCEPT !.status = "healthy"],
                  NoOutcome))
    /\ UNCHANGED <<now, rate_limit_store, scraper, request_semaphore,
                   running, hist>>
    /\ UNCHANGED pvars

\* Mutant of Refuses: the handle is not looked at.
RefusesNever(handle) == FALSE
\* api.py:438: if scraper is None.
Refuses(handle) == handle = None

\* lookup_national_id, lines 438-449: refuse when there is no scraper,
\* else enter the with-block.  A task that finds no permit stays here.
Enter(c) ==
    /\ running = None
    /\ call[c].pc = "validated"
    /\ IF Refuses(scraper)
       THEN /\ call' = [call EXCEPT ![c] = NewCall]
            /\ Ghost(NoGhost, NoGhost,
                     Sent(c, [Response(503, "http_error") EXCEPT
                                 !.error = "Scraper service is not available"],
                          NoOutcome))
            /\ UNCHANGED <<request_semaphore, running>>
       ELSE /\ request_semaphore > 0
            /\ request_semaphore' = PermitsAfterEnter(request_semaphore)
            /\ call' = [call EXCEPT ![c].pc = "acquired",
                          ![c].permit = (request_semaphore' = request_semaphore - 1)]
            /\ running' = c
            /\ Ghost(NoGhost, NoGhost, NoGhost)
    /\ UNCHANGED <<now, rate_limit_store, scraper, hist>>
    /\ UNCHANGED pvars

\* api.py:452: scraper.scrape_electoral_data is called; it is synchronous,
\* so the event loop stays with this task.
CallScraper(c) ==
    /\ running = c
    /\ call[c].pc = "acquired"
    /\ call' = [call EXCEPT ![c].pc = "scraping"]
    /\ Ghost(NoGhost, NoGhost, NoGhost)
    /\ UNCHANGED <<now, rate_limit_store, scraper, request_semaphore,
                   running, hist>>
    /\ UNCHANGED pvars

\* The call returns or raises; the handler builds its response and leaves
\* the with-block.
Finish(c, r) ==
    /\ running = c
    /\ call[c].pc = "scraping"
    /\ request_semaphore' = PermitsAfterExit(request_semaphore, r)
    /\ call' = [call EXCEPT ![c] =
                  [NewCall EXCEPT !.permit =
                      ~(request_semaphore' = request_semaphore + 1)]]
    /\ running' = None
    /\ Ghost(NoGhost, NoGhost, Sent(c, HandleResult(call[c].nid, r), r))
    /\ UNCHANGED <<now, rate_limit_store, scraper, hist>>
    /\ UNCHANGED pvars

\* The steps of the boundary, for the request tasks `calls`, the client
\* identities `clients`, the entry points `entries` and the identifier
\* inputs `inputs`.
Boundary(calls, clients, entries, inputs) ==
    \/ Tick
    \/ \E c \in calls, k \in clients, e \in entries :
          rate_limiting_middleware(c, k, e)
    \/ \E c \in calls, input \in inputs : Validate(c, input)
    \/ \E c \in calls : Enter(c)
    \/ \E c \in calls : CallScraper(c)
    \/ \E c \in calls, r \in ScrapeOutcomes : Finish(c, r)

\* More request tasks than permits, all of one client: the permit pool.
Next == Boundary(Calls, {"ip1"}, {"POST"}, FewInputs)
Spec == Init /\ [][Next]_vars

\* Lookups and health checks of one client, with and without a scraper
\* handle: the order of the gates.
GateNext ==
    \/ Boundary({"t1", "t2"}, {"ip1"}, {"POST", "GET", "health"}, FewInputs)
    \/ \E c \in {"t1", "t2"} : health_check(c)
GateSpec == Init /\ [][GateNext]_vars

\* One request task at a time, two clients: the rate limiter.
RateNext == Boundary({"t1"}, Clients, {"POST", "GET"}, {Core(IdLen, 0, "1")})
RateSpec == Init /\ [][RateNext]_vars

\* The results of the call at api.py:452 with every Registered record.
FieldValues == {"", "v"}
Records ==
    {[Returned(TRUE, "success", d, Absent, FALSE) EXCEPT !.fields = f] :
        d \in Districts,
        f \in [{"electoral_center", "address", "subcommittee_number",
                "electoral_list_number"} -> FieldValues]}
LookupOutcomes == ScrapeOutcomes \cup Records

\* One request task, every result of the call: the handler's responses.
LookupNext ==
    \/ Tick
    \/ \E e \in {"POST", "GET"} : rate_limiting_middleware("t1", "ip1", e)
    \/ \E input \in FewInputs : Validate("t1", input)
    \/ Enter("t1")
    \/ CallScraper("t1")
    \/ \E r \in LookupOutcomes : Finish("t1", r)
LookupSpec == Init /\ [][LookupNext]_vars

(***************************************************************************)
(* Keyword arguments.  A call binds when every keyword it passes names a   *)
(* parameter of the function; otherwise Python raises TypeError.           *)
(***************************************************************************)
Binds(params, kwargs) == kwargs \subseteq params

\* selenium_scraper.py:47, __init__(self, headless, max_retries, retry_delay).
InitParams == {"headless", "max_retries", "retry_delay"}
\* api.py:77-82, the keywords lifespan passes to the constructor.
LifespanKwargs == {"headless", "max_retries", "retry_delay", "session_timeout"}
\* selenium_scraper.py:156, scrape_electoral_data(self, national_id).
ScrapeParams == {"national_id"}
\* api.py:452, scraper.scrape_electoral_data(national_id, timeout=30).
CallKwargs == {"timeout"}

\* lifespan, lines 75-89: the module global after startup.  The
\* constructor raises when its keywords do not bind and when the browser
\* does not start (setup_driver); the exception is caught and the global
\* is left None.
lifespan(browser_starts) ==
    IF Binds(InitParams, LifespanKwargs) /\ browser_starts
    THEN "FreeElectionsScraper" ELSE None

\* The service after startup on a host where the browser starts.
DeployedInit ==
    /\ now = 0
    /\ rate_limit_store = [k \in Clients |-> <<>>]
    /\ scraper = lifespan(TRUE)
    /\ request_semaphore = MAX_CONCURRENT_REQUESTS
    /\ running = None
    /\ call = [c \in Calls |-> NewCall]
    /\ hist = [k \in Clients |-> <<>>]
    /\ lastrl = NoGhost /\ lastv = NoGhost /\ sent = NoGhost
    /\ ScraperBuilt(3, 2)

\* The steps of the started service.  No call passes line 438 (the handle
\* is None in every state), so the steps of the with-block are not among
\* them.
DeployedNext ==
    \/ Tick
    \/ \E c \in {"t1", "t2"}, e \in {"POST", "GET"} :
          rate_limiting_middleware(c, "ip1", e)
    \/ \E c \in {"t1", "t2"}, input \in FewInputs : Validate(c, input)
    \/ \E c \in {"t1", "t2"} : Enter(c)
DeployedSpec == DeployedInit /\ [][DeployedNext]_vars

\* What the call at api.py:452 does on a FreeElectionsScraper: TypeError
\* unless its keywords bind.
CallOutcomes ==
    IF Binds(ScrapeParams, CallKwargs) THEN ScrapeOutcomes
    ELSE {Raised("TypeError")}

\* lookup_national_id with a FreeElectionsScraper as the module global.
HandlerInit ==
    /\ now = 0
    /\ rate_limit_store = [k \in Clients |-> <<>>]
    /\ scraper = "FreeElectionsScraper"
    /\ request_semaphore = MAX_CONCURRENT_REQUESTS
    /\ running = None
    /\ call = [c \in Calls |-> NewCall]
    /\ hist = [k \in Clients |-> <<>>]
    /\ lastrl = NoGhost /\ lastv = NoGhost /\ sent = NoGhost
    /\ ScraperBuilt(3, 2)

HandlerNext ==
    \/ Tick
    \/ \E c \in {"t1", "t2"}, e \in {"POST", "GET"} :
          rate_limiting_middleware(c, "ip1", e)
    \/ \E c \in {"t1", "t2"}, input \in FewInputs : Validate(c, input)
    \/ \E c \in {"t1", "t2"} : Enter(c)
    \/ \E c \in {"t1", "t2"} : CallScraper(c)
    \/ \E c \in {"t1", "t2"}, r \in CallOutcomes : Finish(c, r)
HandlerSpec == HandlerInit /\ [][HandlerNext]_vars

\* One request task, every input: identifier validation.
ValidationNext == Boundary({"t1"}, {"ip1"}, {"POST", "GET"}, Inputs)
ValidationSpec == Init /\ [][ValidationNext]_vars

(***************************************************************************)
(* convert_arabic_numerals.  "ar0" .. "ar9" are the Arabic-Indic digits    *)
(* U+0660 .. U+0669, "fa3" is EXTENDED ARABIC-INDIC DIGIT THREE (U+06F3).  *)
(***************************************************************************)
\* Lines 551-554: the keys and the values of arabic_to_english, in the
\* order of the dict.
ArabicKeys == <<"ar0", "ar1", "ar2", "ar3", "ar4", "ar5", "ar6", "ar7", "ar8",
                "ar9">>
EnglishValues == <<"0", "1", "2", "3", "4", "5", "6", "7", "8", "9">>

\* Mutant of replace: the first occurrence only.
replace_first(text, old, new) ==
    LET at == {i \in 1..Len(text) : text[i] = old}
    IN  [i \in 1..Len(text) |->
            IF at # {} /\ i = SetMin(at) THEN new ELSE text[i]]

\* str.replace(old, new) with old and new of one character.
replace(text, old, new) ==
    [i \in 1..Len(text) |-> IF text[i] = old THEN new ELSE text[i]]

\* Lines 555-557: result after the entries from the k-th on.
RECURSIVE ReplaceFrom(_, _)
ReplaceFrom(result, k) ==
    IF k > Len(ArabicKeys) THEN result
    ELSE ReplaceFrom(replace(result, ArabicKeys[k], EnglishValues[k]), k + 1)

\* convert_arabic_numerals, lines 549-558.
convert_arabic_numerals(text) == ReplaceFrom(text, 1)

\* The texts converted: every string of at most MaxText characters.
NumeralAlphabet ==
    {ArabicKeys[k] : k \in 1..10} \cup {EnglishValues[k] : k \in 1..10}
    \cup {"a", "fa3"}
Texts == UNION {[1..n -> NumeralAlphabet] : n \in 0..MaxText}

\* self.convert_arabic_numerals(text) is called and returns; the function
\* keeps no state, so one call is followed per behaviour.
Convert(text) ==
    /\ ~conv.called
    /\ conv' = [called |-> TRUE, text |-> text,
                result |-> convert_arabic_numerals(text)]
    /\ UNCHANGED <<max_retries, retry_delay, sc, driver, trace, fx>>
    /\ UNCHANGED bvars

(***************************************************************************)
(* The field extraction of extract_result_data, lines 336-540.             *)
(***************************************************************************)
\* The two fields that hold a number, and the three that hold text.
NumericFields == {"subcommittee_number", "electoral_list_number"}
TextFields == RecordFields \ NumericFields
\* Lines 353, 368, 381, 395, 447: the order in which the fields are
\* extracted.
FieldOrder == <<"electoral_center", "district", "address",
                "subcommittee_number", "electoral_list_number">>

\* \d of a str pattern matches every character of Unicode category Nd: the
\* ASCII digits, the Arabic-Indic digits, and others such as "fa3".
IsDecimal(ch) ==
    \/ \E k \in 1..10 : ch = EnglishValues[k] \/ ch = ArabicKeys[k]
    \/ ch = "fa3"

\* re.search(r'\d+', s): the first longest run of \d characters, <<>> when
\* there is no match.
DigitRun(s) ==
    LET at == {i \in 1..Len(s) : IsDecimal(s[i])}
    IN  IF at = {} THEN <<>>
        ELSE LET a == SetMin(at)
                 b == SetMax({j \in a..Len(s) :
                                \A k \in a..j : IsDecimal(s[k])})
             IN  SubSeq(s, a, b)

\* Lines 417-421 (and 431-435, 441-445, 469-473, 483-487, 493-497, 520-524,
\* 529-533): the number taken from a capture; <<>> is the field left ''.
\* The captures of the model hold no whitespace, so strip() changes
\* nothing.
numeric_field(capture) == DigitRun(convert_arabic_numerals(capture))

\* What the structural strategy does for a field: it takes a value from
\* the container of the labelled node, or finds the node and gets no value
\* from its container, or a lookup raises (the node or its container is
\* not there).
StructuralOutcomes == {"value", "no_value", "raises"}

\* A result page by what the extraction meets in it: the outcome of the
\* structural strategy for each field, and the fields whose label and
\* value the regular expression finds in the full page text.
FieldPage(structural, textual) ==
    [structural |-> structural, textual |-> textual]
FieldPages == {FieldPage(st, tx) :
                  st \in [RecordFields -> StructuralOutcomes],
                  tx \in SUBSET RecordFields}

\* Lines 336-343.
EmptyData == [f \in RecordFields |-> ""]

\* The fallback of a field: the regular expression on the full page text.
Textual(f, page) == IF f \in page.textual THEN "text value" ELSE ""

\* Mutant of HasOwnHandler: the lookups of the two numbers are not inside
\* a try statement of their own.
HasOwnHandlerTextOnly(f) == f \in TextFields
\* Lines 354-362, 369-376, 382-390, 396-436, 448-488: the lookups of each
\* field are inside a try statement whose except clause catches every
\* exception.
HasOwnHandler(f) == f \in RecordFields

\* Whether the textual strategy is tried for field f after the structural
\* strategy ended with `outcome`.  The three text fields reach their
\* regular expression only through `except:` (lines 362-366, 376-379,
\* 390-393); the two numbers also through `if not found` (lines 427-435,
\* 479-487).
FallsBack(f, outcome) ==
    \/ outcome = "raises"
    \/ outcome = "no_value" /\ f \in NumericFields

\* One field as its own block of lines 353-497 leaves it.
extract_field(f, page) ==
    IF page.structural[f] = "value" THEN "container value"
    ELSE IF FallsBack(f, page.structural[f]) THEN Textual(f, page)
    ELSE ""

\* Lines 499-533: the handler of an exception that left the block of a
\* field: every field the regular expression finds is set from the full
\* text, the others keep what they had.
RegexOnly(data, page) ==
    [f \in RecordFields |->
        IF f \in page.textual THEN "text value" ELSE data[f]]

\* Lines 348-533: the fields in order, from the k-th on.
RECURSIVE ExtractFrom(_, _, _)
ExtractFrom(data, k, page) ==
    IF k > Len(FieldOrder) THEN data
    ELSE LET f == FieldOrder[k]
         IN  IF page.structural[f] = "raises" /\ ~HasOwnHandler(f)
             THEN RegexOnly(data, page)
             ELSE ExtractFrom([data EXCEPT ![f] = extract_field(f, page)],
                              k + 1, page)
extract_fields(page) == ExtractFrom(EmptyData, 1, page)

\* A capture of one of the two numbers is turned into the field.
ExtractNumber(capture) ==
    /\ ~fx.called
    /\ fx' = [NotExtracted EXCEPT !.called = TRUE, !.kind = "number",
                 !.capture = capture, !.field = numeric_field(capture)]
    /\ UNCHANGED <<max_retries, retry_delay, sc, driver, trace, conv>>
    /\ UNCHANGED bvars

\* Lines 336-540 on a page that passed the phrase tests: the record
\* returned.  Every exception of a lookup is caught at line 362, 376, 390,
\* 411, 424, 436, 463, 476, 488 or 499, the handlers call only re.search
\* and str methods on the page text, and line 537 returns success.
ExtractRecord(page) ==
    /\ ~fx.called
    /\ fx' = [NotExtracted EXCEPT !.called = TRUE, !.kind = "record",
                 !.page = page, !.data = extract_fields(page),
                 !.success = TRUE]
    /\ UNCHANGED <<max_retries, retry_delay, sc, driver, trace, conv>>
    /\ UNCHANGED bvars

(***************************************************************************)
(* The scraper called directly.                                            *)
(***************************************************************************)
LocateOutcomes == {"ok", "timeout", "exception"}

ScrapeInit ==
    /\ now = 0
    /\ rate_limit_store = [k \in Clients |-> <<>>]
    /\ scraper = "FreeElectionsScraper"
    /\ request_semaphore = MAX_CONCURRENT_REQUESTS
    /\ running = None
    /\ call = [c \in Calls |-> NewCall]
    /\ hist = [k \in Clients |-> <<>>]
    /\ lastrl = NoGhost /\ lastv = NoGhost /\ sent = NoGhost
    /\ \E retries \in 0..MaxRetries, delay \in 1..MaxDelay :
          ScraperBuilt(retries, delay)

\* Mutant of EnterFrame: the submit control is looked for next.
EnterFrameThenSubmit(outcome, dc) == Locate("frame", "submit", outcome, dc)
\* Lines 190-201.
EnterFrame(outcome, dc) == Locate("frame", "input", outcome, dc)
\* Lines 204-216.
FillInput(outcome, dc) == Locate("input", "submit", outcome, dc)
\* Lines 219-230.
Submit(outcome, dc) == Locate("submit", "read", outcome, dc)

ScrapeNext ==
    \/ Invoke(Core(IdLen, 0, "1"))
    \/ LoopTop
    \/ Sleep
    \/ \E ok \in BOOLEAN : Navigate(ok)
    \/ \E o \in LocateOutcomes, dc \in BOOLEAN : EnterFrame(o, dc)
    \/ \E o \in LocateOutcomes, dc \in BOOLEAN : FillInput(o, dc)
    \/ \E o \in LocateOutcomes, dc \in BOOLEAN : Submit(o, dc)
    \/ \E page \in Pages, raised \in SUBSET {"wait", "lookup"}, dc \in BOOLEAN :
          ReadResult(page, raised, dc)
    \/ Exhausted

ScrapeSpec == ScrapeInit /\ [][ScrapeNext]_vars

\* convert_arabic_numerals applied to every text.
NumeralNext == \E text \in Texts : Convert(text)
NumeralSpec == ScrapeInit /\ [][NumeralNext]_vars

\* The field extraction on every page structure and every capture.
ExtractNext ==
    \/ \E capture \in Texts : ExtractNumber(capture)
    \/ \E page \in FieldPages : ExtractRecord(page)
ExtractSpec == ScrapeInit /\ [][ExtractNext]_vars

\* The steps of a call under way.  Every wait on the driver is bounded
\* (WebDriverWait(self.driver, 15), line 187) and every sleep is finite, so
\* a call under way takes its next step.
Attempt ==
    \/ LoopTop
    \/ Sleep
    \/ \E ok \in BOOLEAN : Navigate(ok)
    \/ \E o \in LocateOutcomes, dc \in BOOLEAN : EnterFrame(o, dc)
    \/ \E o \in LocateOutcomes, dc \in BOOLEAN : FillInput(o, dc)
    \/ \E o \in LocateOutcomes, dc \in BOOLEAN : Submit(o, dc)
    \/ \E page \in Pages, raised \in SUBSET {"wait", "lookup"}, dc \in BOOLEAN :
          ReadResult(page, raised, dc)
    \/ Exhausted
FairScrapeSpec == ScrapeSpec /\ WF_vars(Attempt)

\* The boundary under the scheduling of the event loop: its ready queue is
\* first in, first out, so a task that is ready again and again is run
\* (strong fairness of entering the with-block), and the synchronous call
\* under way returns.
FairSpec ==
    /\ Spec
    /\ \A c \in Calls : SF_vars(Enter(c))
    /\ \A c \in Calls : WF_vars(CallScraper(c))
    /\ \A c \in Calls : WF_vars(\E r \in ScrapeOutcomes : Finish(c, r))

(***************************************************************************)
(* The handler and the retry controller on the shared browser.             *)
(***************************************************************************)
\* Mutant of EventLoopDuring: the call gives the event loop up, as an
\* awaited call would.
EventLoopYielded(c) == None
\* api.py:452: the call is an ordinary (not awaited) call inside the
\* coroutine, so the event loop stays with task c until it returns.
EventLoopDuring(c) == c

\* Whether the method called at api.py:452 takes the keywords of the call:
\* scrape_electoral_data of selenium_scraper.py:156 does not; the other
\* value follows the call into the method.
Accepts == {Binds(ScrapeParams, CallKwargs), TRUE}

\* Two valid identifiers.
LinkedInputs == {Core(IdLen, 0, "1"), Core(IdLen, 1, "0")}
LinkedCalls == {"t1", "t2"}
\* The result pages of LinkedSpec: Registered in a district of the list
\* and in one outside it, not registered, underage, empty, and one whose
\* extraction raises a retryable error.
LinkedPages ==
    {[Page(TRUE, 4 * MinPageLen, FALSE, FALSE) EXCEPT !.found = RecordFields],
     [Page(TRUE, 4 * MinPageLen, FALSE, FALSE) EXCEPT
         !.found = RecordFields, !.district = "qism al-manakh"],
     Page(TRUE, 4 * MinPageLen, FALSE, TRUE),
     Page(TRUE, 4 * MinPageLen, TRUE, FALSE),
     Page(TRUE, 0, FALSE, FALSE),
     [Page(TRUE, 4 * MinPageLen, FALSE, FALSE) EXCEPT
         !.raises = "exception text holding parse or extract"]}

\* api.py:452: scraper.scrape_electoral_data(national_id, timeout=30) is
\* called by task c with the identifier of its request.
LinkedCall(c, accepts) ==
    /\ running = c
    /\ call[c].pc = "acquired"
    /\ call' = [call EXCEPT ![c].pc = "scraping"]
    /\ running' = EventLoopDuring(c)
    /\ sc' = IF accepts
             THEN [NotCalled EXCEPT !.pc = "loop", !.national_id = call[c].nid]
             ELSE [NotCalled EXCEPT !.pc = "type_error"]
    /\ trace' = NoTrace
    /\ Ghost(NoGhost, NoGhost, NoGhost)
    /\ UNCHANGED <<now, rate_limit_store, scraper, request_semaphore, hist>>
    /\ UNCHANGED <<conv, fx, max_retries, retry_delay, driver>>

\* What the call at api.py:452 hands to the handler: the TypeError of the
\* binding, or the dict scrape_electoral_data returned (api.py:455-470
\* read its success, data, error and retries_exhausted; line 470 reads
\* data.get('status', 'unknown'), here the status or Absent).
OutcomeOf(frame) ==
    IF frame.pc = "type_error" THEN Raised("TypeError")
    ELSE LET r == frame.result
         IN  IF ~r.success
             THEN Returned(FALSE, Absent, Absent, "scrape_error",
                           r.retries_exhausted = "true")
             ELSE IF r.status # "success"
             THEN Returned(TRUE, r.status, Absent, Absent, FALSE)
             ELSE [Returned(TRUE, "success", r.district, Absent, FALSE)
                      EXCEPT !.fields = [k \in DOMAIN NoFields |->
                                 IF k \in r.filled THEN "v" ELSE ""]]

\* The call has returned or raised: the handler answers.
LinkedFinish(c) ==
    /\ sc.pc \in {"returned", "type_error"}
    /\ Finish(c, OutcomeOf(sc))

LinkedNext ==
    \/ \E c \in LinkedCalls : rate_limiting_middleware(c, "ip1", "POST")
    \/ \E c \in LinkedCalls, input \in LinkedInputs : Validate(c, input)
    \/ \E c \in LinkedCalls : Enter(c)
    \/ \E c \in LinkedCalls, accepts \in Accepts : LinkedCall(c, accepts)
    \/ LoopTop
    \/ Sleep
    \/ \E ok \in BOOLEAN : Navigate(ok)
    \/ \E o \in LocateOutcomes, dc \in BOOLEAN : EnterFrame(o, dc)
    \/ \E o \in LocateOutcomes, dc \in BOOLEAN : FillInput(o, dc)
    \/ \E o \in LocateOutcomes, dc \in BOOLEAN : Submit(o, dc)
    \/ \E page \in LinkedPages, dc \in BOOLEAN : ReadResult(page, {}, dc)
    \/ Exhausted
    \/ \E c \in LinkedCalls : LinkedFinish(c)
LinkedSpec == HandlerInit /\ [][LinkedNext]_vars

(***************************************************************************)
(* Properties.                                                             *)
(***************************************************************************)
Holders == {c \in Calls : call[c].permit}
InBlock(c) == call[c].pc \in {"acquired", "scraping"}
Last(s) == s[Len(s)]

\* A string without its leading and trailing whitespace, character by
\* character.
RECURSIVE DropLeading(_)
DropLeading(s) ==
    IF s # <<>> /\ Head(s) = " " THEN DropLeading(Tail(s)) ELSE s
RECURSIVE DropTrailing(_)
DropTrailing(s) ==
    IF s # <<>> /\ s[Len(s)] = " "
    THEN DropTrailing(SubSeq(s, 1, Len(s) - 1)) ELSE s
Trimmed(s) == DropTrailing(DropLeading(s))
AllAsciiDigits(s) == \A i \in 1..Len(s) : s[i] \in {"0", "1"}

\* C1: a request is admitted exactly when fewer than RATE_LIMIT_REQUESTS
\* admissions of its client lie in the trailing window, so of quota+1
\* requests within one window the first quota are admitted and every
\* further one is rejected; a rejection is the 429 response with
\* retry_after equal to the window length.
C1_QuotaThenRejected ==
    lastrl.kind = "decision" =>
        /\ lastrl.allowed <=> Len(lastrl.window) < RATE_LIMIT_REQUESTS
        /\ lastrl.allowed => sent.kind # "response"
        /\ ~lastrl.allowed =>
              /\ sent.kind = "response"
              /\ sent.resp.code = 429
              /\ sent.resp.kind = "rate_limited"
              /\ sent.resp.retry_after = RATE_LIMIT_WINDOW

\* A request beyond the quota of its window has just been rejected.
C1_Witness ==
    /\ lastrl.kind = "decision"
    /\ ~lastrl.allowed
    /\ Len(lastrl.window) = RATE_LIMIT_REQUESTS
    /\ sent.kind = "response" /\ sent.resp.code = 429

\* C2: at every instant each client has at most RATE_LIMIT_REQUESTS
\* admissions in the trailing window, its stored window holds at most that
\* many timestamps, and an admission leaves in the store the admissions of
\* the trailing window followed by exactly one timestamp, `now`.
C2_SlidingWindow ==
    /\ \A k \in Clients :
          /\ Len(hist[k]) <= RATE_LIMIT_REQUESTS
          /\ Len(rate_limit_store[k]) <= RATE_LIMIT_REQUESTS
          /\ \A i \in 1..Len(hist[k]) :
                hist[k][i] > now - RATE_LIMIT_WINDOW /\ hist[k][i] <= now
    /\ (lastrl.kind = "decision" /\ lastrl.allowed) =>
          rate_limit_store[lastrl.client] = Append(lastrl.window, lastrl.at)

\* A request is admitted although the store was full: its entries had
\* left the window.
C2_Witness ==
    /\ lastrl.kind = "decision"
    /\ lastrl.allowed
    /\ lastrl.stored = RATE_LIMIT_REQUESTS
    /\ Len(rate_limit_store[lastrl.client]) < RATE_LIMIT_REQUESTS + 1

\* C3: at most MAX_CONCURRENT_REQUESTS calls hold a permit, and
\* scrape_electoral_data runs only in a call that holds one.
C3_PermitBound ==
    /\ Cardinality(Holders) <= MAX_CONCURRENT_REQUESTS
    /\ \A c \in Calls : InBlock(c) => call[c].permit
    /\ \A c \in Calls : call[c].pc = "scraping" => running = c

\* A call is inside the scraper, holding a permit, while every other
\* task waits to enter the with-block.
C3_Witness ==
    \E c \in Calls :
        /\ call[c].pc = "scraping" /\ call[c].permit
        /\ \A d \in Calls \ {c} : call[d].pc = "validated"

\* C4: a call gives its permit back on every way out of the with-block:
\* the free permits are the capacity less the calls inside the block, a
\* call that has answered holds none, and with no call inside every
\* permit is free.
C4_NoPermitLeak ==
    /\ request_semaphore = MAX_CONCURRENT_REQUESTS - Cardinality(Holders)
    /\ \A c \in Calls : call[c].permit => InBlock(c)
    /\ (\A c \in Calls : ~InBlock(c)) =>
          request_semaphore = MAX_CONCURRENT_REQUESTS
    /\ sent.kind = "response" => ~call[sent.c].permit

\* A call has left the with-block by an exception that is none of the
\* three named ones, and every permit is free.
C4_Witness ==
    /\ sent.kind = "response"
    /\ sent.outcome.type = "raise" /\ sent.outcome.exc = "TypeError"
    /\ request_semaphore = MAX_CONCURRENT_REQUESTS

\* C5: a call that is ready to enter the with-block of a running service
\* is never answered for want of a permit and eventually holds one.
C5_EventuallyAdmitted ==
    \A c \in Calls :
        (call[c].pc = "validated" /\ scraper # None) ~> call[c].permit

\* More calls than there are permits are at the with-block: one is in the
\* scraper and the others wait to enter.
C5_Witness ==
    /\ scraper # None
    /\ Cardinality({c \in Calls : call[c].pc = "validated" \/ InBlock(c)})
          > MAX_CONCURRENT_REQUESTS
    /\ \E d \in Calls : call[d].pc = "scraping"
    /\ request_semaphore < MAX_CONCURRENT_REQUESTS

\* C6: an input whose trimmed length is not IdLen is rejected with the
\* message that states that length, and its call never reaches the
\* handler; IdLen ASCII digits are accepted unchanged; an accepted value
\* validates to itself.
C6_LengthAndAcceptance ==
    lastv.kind = "validation" =>
        LET t == Trimmed(lastv.input)
        IN  /\ Len(t) # IdLen =>
                  /\ ~lastv.ok
                  /\ sent.kind = "response"
                  /\ sent.resp.code = 400
                  /\ sent.resp.error = "length"
                  /\ sent.resp.got = Len(t)
                  /\ call[lastv.c].pc = "idle"
            /\ (Len(lastv.input) = IdLen /\ AllAsciiDigits(lastv.input)) =>
                  /\ lastv.ok
                  /\ lastv.value = lastv.input
                  /\ call[lastv.c].pc = "validated"
                  /\ call[lastv.c].nid = lastv.input
            /\ lastv.ok =>
                  /\ Validation(lastv.entry, lastv.value).ok
                  /\ Validation(lastv.entry, lastv.value).value = lastv.value

\* A padded input of IdLen + 1 characters has been rejected with the
\* length of its trimmed text.
C6_Witness ==
    /\ lastv.kind = "validation"
    /\ ~lastv.ok
    /\ Len(lastv.input) > IdLen + 1
    /\ sent.kind = "response" /\ sent.resp.got = IdLen + 1

\* C7: an identifier that passes validation has IdLen characters, all of
\* them ASCII digits, and a trimmed input of IdLen characters with any other
\* character is rejected with the digits-only message.
C7_AsciiDigitsOnly ==
    lastv.kind = "validation" =>
        LET t == Trimmed(lastv.input)
        IN  /\ lastv.ok =>
                  Len(lastv.value) = IdLen /\ AllAsciiDigits(lastv.value)
            /\ (Len(t) = IdLen /\ ~AllAsciiDigits(t)) =>
                  /\ ~lastv.ok
                  /\ sent.kind = "response"
                  /\ sent.resp.error = "digits_only"

\* C8: on the same input the two entry points both reject with a 400
\* before the handler is entered, or both pass on the same trimmed
\* identifier.
C8_SameValidation ==
    lastv.kind = "validation" =>
        LET other == IF lastv.entry = "POST" THEN GetValidation(lastv.input)
                     ELSE PostValidation(lastv.input)
        IN  /\ other.ok = lastv.ok
            /\ lastv.ok =>
                  /\ other.value = lastv.value
                  /\ lastv.value = Trimmed(lastv.input)
                  /\ call[lastv.c].nid = lastv.value
                  /\ call[lastv.c].pc = "validated"
            /\ ~lastv.ok =>
                  /\ sent.kind = "response" /\ sent.resp.code = 400
                  /\ other.resp.code = 400
                  /\ call[lastv.c].pc = "idle"

\* The path-parameter form has accepted a padded input as its trimmed
\* text.
C8_Witness ==
    /\ lastv.kind = "validation"
    /\ lastv.entry = "GET"
    /\ lastv.ok
    /\ lastv.value # lastv.input
    /\ call[lastv.c].nid = lastv.value

DriverFailures == {"navigation", "frame", "frame_exception", "input",
                   "input_exception", "submit", "submit_exception"}
TerminalOutcomes == {"success", "underage", "not_registered"}
AllIn(s, S) == \A i \in 1..Len(s) : s[i] \in S
UnexpectedExceptions == {"frame_exception", "input_exception",
                         "submit_exception"}
\* The last_error an attempt's failure records.
MessageOf(entry) ==
    CASE entry = "navigation" -> "Navigation error"
      [] entry = "frame" -> "Could not find iframe"
      [] entry = "input" -> "Could not find national ID input field"
      [] entry = "submit" -> "Could not find submit button"
      [] entry = "read_failed" -> "exception text holding parse or extract"
      [] OTHER -> "exception"

\* C9: while fewer than max_retries attempts have been made and each has
\* failed at navigation, frame, input or submit, the call goes on; and
\* when attempt k+1 reads a terminal page after k such failures the call
\* returns success with that outcome after exactly k+1 attempts and k+1
\* navigations.
C9_RetryThenSucceed ==
    /\ (AllIn(trace.log, DriverFailures) /\ Len(trace.log) < max_retries) =>
          sc.pc \notin {"returned", "exhausted"}
    /\ (/\ sc.pc = "returned"
        /\ trace.log # <<>>
        /\ Last(trace.log) \in TerminalOutcomes
        /\ AllIn(SubSeq(trace.log, 1, Len(trace.log) - 1), DriverFailures)) =>
          /\ sc.result.success
          /\ sc.result.status = Last(trace.log)
          /\ sc.result.retries_exhausted = Absent
          /\ Len(trace.log) <= max_retries
          /\ sc.attempt + 1 = Len(trace.log)
          /\ trace.navs = Len(trace.log)

\* With max_retries = 3, the frame is not found twice and the third
\* attempt reads a Registered page.
C9_Witness ==
    /\ sc.pc = "returned"
    /\ max_retries = 3
    /\ trace.log = <<"frame", "frame", "success">>
    /\ sc.result.success /\ sc.result.status = "success"
    /\ trace.navs = 3

\* C10: with max_retries >= 1, a call whose every attempt fails to locate
\* the frame makes exactly max_retries attempts and returns a failure with
\* retries_exhausted; and every retries-exhausted result reports the
\* error recorded by the last attempt.
C10_RetriesExhausted ==
    (sc.pc = "returned" /\ max_retries >= 1) =>
        /\ (trace.log # <<>> /\ AllIn(trace.log, {"frame", "frame_exception"})) =>
              /\ sc.result.retries_exhausted = "true"
              /\ ~sc.result.success
        /\ sc.result.retries_exhausted = "true" =>
              /\ ~sc.result.success
              /\ Len(trace.log) = max_retries
              /\ trace.navs = max_retries
              /\ sc.result.attempts = max_retries
              /\ sc.result.last_error.at = max_retries - 1
              /\ sc.result.last_error.msg = MessageOf(Last(trace.log))

\* With max_retries = 3, three attempts have timed out waiting for the
\* frame and the call has returned retries_exhausted.
C10_Witness ==
    /\ sc.pc = "returned"
    /\ max_retries = 3
    /\ trace.log = <<"frame", "frame", "frame">>
    /\ sc.result.retries_exhausted = "true"
    /\ sc.result.last_error = Error("Could not find iframe", 2)

\* C11: an attempt whose page classifies as Registered, Underage or
\* NotRegistered ends the call: the call has returned success with that
\* outcome, and the attempts, navigations and backoff sleeps of the call
\* are those made up to that attempt, whatever max_retries is.
C11_TerminalShortCircuit ==
    \A i \in 1..Len(trace.log) :
        trace.log[i] \in TerminalOutcomes =>
            /\ i = Len(trace.log)
            /\ sc.pc = "returned"
            /\ sc.result.success
            /\ sc.result.status = trace.log[i]
            /\ sc.attempt = i - 1
            /\ trace.navs = i
            /\ Len(trace.sleeps) = i - 1

\* With max_retries = 3 the first attempt reads an Underage page and the
\* call has returned, two attempts unused.
C11_Witness ==
    /\ max_retries = 3
    /\ sc.pc = "returned"
    /\ trace.log = <<"underage">>
    /\ sc.result.status = "underage"
    /\ trace.navs = 1 /\ trace.sleeps = <<>>

\* C12: of a page whose text passes the minimum-length check, the underage
\* phrase makes the outcome Underage whatever else the text holds, the
\* not-registered phrase without the underage phrase makes it
\* NotRegistered, and in both cases no field is extracted and the data
\* are the status and the phrase only; with neither phrase the fields are
\* extracted and, unless an exception ends the extraction, the outcome is
\* Registered.
C12_ClassificationPriority ==
    (/\ sc.pc = "returned"
     /\ sc.result.retries_exhausted = Absent
     /\ trace.page.readable
     /\ trace.page.len >= MinPageLen) =>
        LET page == trace.page
            r == sc.result
            phrase_only(status) ==
                /\ r.success
                /\ r.status = status
                /\ r.keys = {"status", "error_message"}
                /\ r.error_message = status
                /\ ~r.extracted
        IN  /\ page.underage => phrase_only("underage")
            /\ (page.notreg /\ ~page.underage) => phrase_only("not_registered")
            /\ (~page.underage /\ ~page.notreg /\ page.raises = None) =>
                  /\ r.success
                  /\ r.status = "success"
                  /\ r.extracted
                  /\ r.keys = RecordKeys

\* A page holding both phrases has been read and the call has returned
\* Underage.
C12_Witness ==
    /\ sc.pc = "returned"
    /\ trace.page.readable /\ trace.page.underage /\ trace.page.notreg
    /\ sc.result.status = "underage"
    /\ ~sc.result.extracted

\* C13: the response to a Registered record whose district is non-empty
\* and outside ALLOWED_DISTRICTS has status out_of_district and carries
\* the district, the electoral center and the address of the record and
\* neither of the two numbers; the response to a record whose district is
\* empty or in the list has status registered and carries the five fields
\* as extracted.
C13_DistrictFilter ==
    (/\ sent.kind = "response"
     /\ sent.outcome.type = "return"
     /\ sent.outcome.success
     /\ sent.outcome.status = "success") =>
        LET r == sent.outcome
            resp == sent.resp
        IN  /\ resp.code = 200 /\ resp.success /\ resp.national_id = sent.nid
            /\ IF r.district # "" /\ r.district \notin ALLOWED_DISTRICTS
               THEN /\ resp.status = "out_of_district"
                    /\ DOMAIN resp.data = {"message", "reason", "district",
                                           "electoral_center", "address"}
                    /\ resp.data.district = r.district
                    /\ resp.data.electoral_center = r.fields.electoral_center
                    /\ resp.data.address = r.fields.address
               ELSE /\ resp.status = "registered"
                    /\ DOMAIN resp.data = {"electoral_center", "district",
                                           "address", "subcommittee_number",
                                           "electoral_list_number"}
                    /\ resp.data.district = r.district
                    /\ \A k \in DOMAIN r.fields : resp.data[k] = r.fields[k]

\* A record of a district outside the list, with both numbers extracted,
\* has been answered out_of_district.
C13_Witness ==
    /\ sent.kind = "response"
    /\ sent.outcome.type = "return"
    /\ sent.outcome.status = "success"
    /\ sent.outcome.district = "qism al-manakh"
    /\ sent.outcome.fields.subcommittee_number = "v"
    /\ sent.outcome.fields.electoral_list_number = "v"
    /\ sent.resp.status = "out_of_district"

\* A result dict as the caller reads it: a success with an outcome, or a
\* failure with an error message.
WellFormedResult(r) ==
    \/ r.success /\ r.status \in TerminalOutcomes /\ r.error = Absent
    \/ ~r.success /\ r.status = Absent /\ r.error # Absent

\* C14: whatever the driver does at each step, a call makes at most
\* max_retries attempts, no exception leaves it, what it returns is a
\* success with an outcome or a failure with an error message, and a call
\* under way eventually returns.
C14_Terminates ==
    /\ [](/\ trace.navs <= max_retries
          /\ Len(trace.log) <= max_retries
          /\ sc.attempt <= max_retries
          /\ sc.pc # "raised"
          /\ sc.pc = "returned" => WellFormedResult(sc.result))
    /\ (sc.pc \notin {"not_called", "returned"}) ~> (sc.pc = "returned")

\* With max_retries = 3, navigation, the input field and the submit
\* control have failed in turn and the call has returned its failure.
C14_Witness ==
    /\ max_retries = 3
    /\ sc.pc = "returned"
    /\ trace.log = <<"navigation", "input_exception", "submit">>
    /\ ~sc.result.success
    /\ sc.result.error # Absent

\* C15: an exception of the driver at navigation, frame entry, fill or
\* submit makes the call retry or give up with retries exhausted, one at
\* the read of the page text makes it return a failure, one at the
\* best-effort wait, at an element lookup of the extraction or at the
\* return to the top-level document changes nothing; none leaves
\* scrape_electoral_data.
C15_NoRawPropagation ==
    /\ sc.pc # "raised"
    /\ trace.faults \cap {"navigate", "frame", "input", "submit"} # {} =>
          /\ sc.pc \in {"loop", "exhausted"}
          /\ sc.last_error.msg # "None"
    /\ "read" \in trace.faults =>
          /\ sc.pc = "returned"
          /\ ~sc.result.success
          /\ sc.result.error = "Failed to read page content"
    /\ (/\ trace.faults # {}
        /\ trace.faults \subseteq {"wait", "lookup", "default_content"}
        /\ trace.page.readable) =>
          /\ sc.pc = "returned"
          /\ sc.result = extract_result_data(trace.page)

\* The best-effort wait, the element lookups and the return to the
\* top-level document have all raised, and the call has returned a
\* Registered record.
C15_Witness ==
    /\ sc.pc = "returned"
    /\ trace.faults = {"wait", "lookup", "default_content"}
    /\ sc.result.success
    /\ sc.result.status = "success"

\* C16: the service after startup holds the scraper built with
\* max_retries = 3 and retry_delay = 2, and a lookup with a valid
\* identifier that the rate limiter admitted is answered only after
\* scrape_electoral_data has been called for it.
C16_LookupRunsPipeline ==
    /\ scraper = "FreeElectionsScraper"
    /\ scraper = "FreeElectionsScraper" => max_retries = 3 /\ retry_delay = 2
    /\ (sent.kind = "response" /\ sent.nid # <<>>) =>
          sent.outcome.type # "not_called"

\* C17: the call a lookup makes into the scraper carries a timeout the
\* scraper honours: the call returns the result of the pipeline or ends
\* as a failure classified as a timeout, and the permit is given back.
C17_TimeoutBoundsCall ==
    (sent.kind = "response" /\ sent.outcome.type # "not_called") =>
        /\ \/ sent.outcome.type \in {"return", "none"}
           \/ /\ sent.outcome.type = "raise"
              /\ sent.outcome.exc = "TimeoutError"
              /\ sent.resp.error = "Request timeout"
        /\ ~call[sent.c].permit

\* C18: while the scraper handle is None no call holds a permit or is
\* inside the with-block, no attempt has been made, and every lookup that
\* reaches the handler is answered 503 without the scraper being called.
C18_ResourceUnavailable ==
    scraper = None =>
        /\ request_semaphore = MAX_CONCURRENT_REQUESTS
        /\ \A c \in Calls : ~call[c].permit /\ ~InBlock(c)
        /\ running = None
        /\ sc.pc = "not_called" /\ trace.navs = 0
        /\ (sent.kind = "response" /\ sent.nid # <<>>) =>
              /\ sent.resp.code = 503
              /\ sent.resp.kind = "http_error"
              /\ sent.resp.error = "Scraper service is not available"
              /\ sent.outcome.type = "not_called"
              /\ call[sent.c].pc = "idle"

\* A lookup with a valid identifier has been refused 503 while other
\* tasks wait at the handler, every permit free.
C18_Witness ==
    /\ scraper = None
    /\ sent.kind = "response" /\ sent.nid # <<>>
    /\ sent.resp.code = 503
    /\ request_semaphore = MAX_CONCURRENT_REQUESTS
    /\ \E c \in Calls : call[c].pc = "validated"

GlyphValue(ch) == CHOOSE v \in 0..9 :
    ch = <<"ar0", "ar1", "ar2", "ar3", "ar4", "ar5", "ar6", "ar7", "ar8",
           "ar9">>[v + 1]
AsciiDigit(v) == <<"0", "1", "2", "3", "4", "5", "6", "7", "8", "9">>[v + 1]
IsGlyph(ch) == ch \in {"ar0", "ar1", "ar2", "ar3", "ar4", "ar5", "ar6", "ar7",
                       "ar8", "ar9"}

\* C20: convert_arabic_numerals returns a text of the same length in
\* which every Arabic-Indic digit is the ASCII digit of the same value
\* (distinct glyphs giving distinct digits) and every other character is
\* unchanged in its place; a text without such a glyph is returned as it
\* is, and converting the result again changes nothing.
C20_NumeralNormalizer ==
    conv.called =>
        LET text == conv.text
            result == conv.result
        IN  /\ Len(result) = Len(text)
            /\ \A i \in 1..Len(text) :
                  IF IsGlyph(text[i])
                  THEN result[i] = AsciiDigit(GlyphValue(text[i]))
                  ELSE result[i] = text[i]
            /\ \A i, j \in 1..Len(text) :
                  (IsGlyph(text[i]) /\ IsGlyph(text[j]) /\ text[i] # text[j])
                      => result[i] # result[j]
            /\ (\A i \in 1..Len(text) : ~IsGlyph(text[i])) => result = text
            /\ convert_arabic_numerals(result) = result

\* A text of the same glyph twice has been converted.
C20_Witness ==
    /\ conv.called
    /\ conv.text = <<"ar9", "ar9">>
    /\ conv.result = <<"9", "9">>

\* C21: the result of a call that succeeds on its k-th attempt reports
\* the attempt count k.
C21_AttemptCountReported ==
    (sc.pc = "returned" /\ sc.result.success) =>
        sc.result.attempts = sc.attempt + 1

\* The attempts the call has started: the ones that ended, each with one
\* entry of the log, and the one under way, which starts when the loop
\* takes its value, before its sleep and its navigation.
Started ==
    Len(trace.log) + (IF sc.pc \in {"sleep", "navigate", "frame", "input",
                                     "submit", "read"} THEN 1 ELSE 0)

\* C22: no sleep precedes the first attempt; the k-th attempt (k >= 2) is
\* preceded by exactly one sleep of retry_delay * 2^(k-2), taken after
\* attempt k-1 ended and before attempt k navigates; a call that made m
\* attempts slept m-1 times and never after its last attempt.
C22_ExponentialBackoff ==
    sc.pc # "not_called" =>
        /\ Len(trace.sleeps) = (IF Started = 0 THEN 0 ELSE Started - 1)
        /\ Len(trace.sleeps) >= 1 => trace.sleeps[1] = retry_delay
        /\ \A i \in 2..Len(trace.sleeps) :
               trace.sleeps[i] = 2 * trace.sleeps[i - 1]
        /\ sc.pc \in {"frame", "input", "submit", "read"} =>
               trace.navs = Len(trace.sleeps) + 1
        /\ sc.pc \in {"returned", "raised"} =>
               Len(trace.sleeps) = (IF Len(trace.log) = 0 THEN 0
                                    ELSE Len(trace.log) - 1)

\* Witness: a call of three attempts has returned after sleeping
\* retry_delay and then twice retry_delay.
C22_Witness ==
    /\ sc.pc = "returned"
    /\ Len(trace.log) = 3
    /\ retry_delay = 2
    /\ trace.sleeps = <<2, 4>>

\* The page of the attempt that ended last was read and is empty: after
\* trimming, its text has fewer than MinPageLen characters.
EmptyPageRead ==
    /\ trace.log # <<>>
    /\ Last(trace.log) = "read_failed"
    /\ trace.page.readable
    /\ trace.page.len < MinPageLen

\* C23: an attempt that reads an empty page records the message and the
\* call goes on to the next attempt; the call ends only when the attempts
\* are used up, with retries_exhausted.
C23_EmptyPageRetryable ==
    EmptyPageRead =>
        /\ sc.last_error.msg = "Page content is empty or incomplete"
        /\ Len(trace.log) < max_retries => sc.pc # "returned"
        /\ sc.pc = "returned" => sc.result.retries_exhausted = "true"

\* C24: a page whose text is absent or, after trimming, shorter than
\* MinPageLen characters is classified as the empty-page failure and as
\* nothing else: no status, no data, no phrase, and the field extraction
\* has not run; a text of MinPageLen characters or more is never
\* classified so.
C24_EmptyPageClassification ==
    (sc.pc = "returned" /\ sc.result.retries_exhausted = Absent
                        /\ trace.page.readable) =>
        IF trace.page.len < MinPageLen
        THEN /\ ~sc.result.success
             /\ sc.result.error = "Page content is empty or incomplete"
             /\ sc.result.status = Absent
             /\ sc.result.keys = {}
             /\ sc.result.error_message = Absent
             /\ ~sc.result.extracted
             /\ Last(trace.log) = "read_failed"
        ELSE sc.result.error # "Page content is empty or incomplete"

\* A text of MinPageLen - 1 characters has been read and classified as
\* the empty-page failure.
C24_Witness ==
    /\ sc.pc = "returned"
    /\ trace.page.readable
    /\ trace.page.len = MinPageLen - 1
    /\ sc.result.error = "Page content is empty or incomplete"

\* C25: a text of MinPageLen characters or more that holds neither
\* terminal phrase is classified Registered, also when the extraction
\* fills none of the five fields; the record is returned as a success by
\* the attempt that read it, and the call makes no further attempt.
C25_UnrecognisedIsRegistered ==
    (/\ trace.page.readable
     /\ trace.page.len >= MinPageLen
     /\ ~trace.page.underage /\ ~trace.page.notreg
     /\ trace.page.raises = None) =>
        /\ sc.pc = "returned"
        /\ sc.result.success
        /\ sc.result.status = "success"
        /\ sc.result.keys = RecordKeys
        /\ sc.result.filled = trace.page.found
        /\ sc.result.retries_exhausted = Absent
        /\ Last(trace.log) = "success"
        /\ sc.attempt + 1 = Len(trace.log)
        /\ trace.navs = Len(trace.log)

\* With max_retries = 3, the first attempt has read a text in which no
\* field is found and the call has returned a Registered record with all
\* five fields empty.
C25_Witness ==
    /\ max_retries = 3
    /\ sc.pc = "returned"
    /\ trace.log = <<"success">>
    /\ trace.page.len >= MinPageLen
    /\ trace.page.found = {}
    /\ sc.result.status = "success"
    /\ sc.result.filled \cap RecordFields = {}

\* The error texts of extract_result_data in which neither 'parse' nor
\* 'extract' occurs.
PlainErrors == {"Failed to read page content",
                "Page content is empty or incomplete", "exception text"}

\* C26: when the read of an attempt ends in a failure whose text holds
\* neither 'parse' nor 'extract', the call returns that failure from that
\* attempt, without retries_exhausted; when the text holds one of the two
\* words the failure is recorded as the last error and the call ends only
\* with the attempts used up.
C26_NonRetryableReturnsAtOnce ==
    (trace.log # <<>> /\ Last(trace.log) = "read_failed") =>
        LET result_data == extract_result_data(trace.page)
        IN  IF result_data.error \in PlainErrors
            THEN /\ sc.pc = "returned"
                 /\ sc.result = result_data
                 /\ ~sc.result.success
                 /\ sc.result.retries_exhausted = Absent
                 /\ sc.attempt + 1 = Len(trace.log)
                 /\ trace.navs = Len(trace.log)
            ELSE /\ result_data.error = "exception text holding parse or extract"
                 /\ sc.last_error.msg = result_data.error
                 /\ Len(trace.log) < max_retries => sc.pc # "returned"
                 /\ sc.pc = "returned" =>
                        sc.result.retries_exhausted = "true"

\* With max_retries = 3, the body of the page could not be read on the
\* second attempt and the call has returned that failure, one attempt
\* unused.
C26_Witness ==
    /\ max_retries = 3
    /\ sc.pc = "returned"
    /\ trace.log = <<"frame", "read_failed">>
    /\ sc.result.error = "Failed to read page content"
    /\ sc.result.retries_exhausted = Absent

\* An extraction error has been retried: the second attempt is under way
\* after the first ended in an exception text holding 'extract'.
ExtractionErrorRetried ==
    /\ trace.log = <<"read_failed">>
    /\ sc.pc = "frame"
    /\ sc.last_error.msg = "exception text holding parse or extract"

\* C27: an exception of an attempt that no step handler catches is
\* recorded as the last error and the return to the top-level document
\* is attempted; the call then goes on to the next attempt when one
\* remains, and otherwise leaves the loop and returns retries_exhausted
\* with that exception as its last error.
C27_UnexpectedExceptions ==
    (trace.log # <<>> /\ Last(trace.log) \in UnexpectedExceptions) =>
        LET k == Len(trace.log)
        IN  /\ trace.recoveries >= 1
            /\ trace.faults # {} =>
                  /\ sc.last_error = Error("exception", k - 1)
                  /\ driver.in_frame => "default_content" \in trace.faults
                  /\ k < max_retries => sc.pc = "loop" /\ sc.attempt = k
                  /\ k = max_retries => sc.pc = "exhausted"
            /\ k < max_retries => sc.pc \notin {"exhausted", "returned"}
            /\ k = max_retries => sc.pc \in {"exhausted", "returned"}
            /\ sc.pc = "returned" =>
                  /\ ~sc.result.success
                  /\ sc.result.retries_exhausted = "true"
                  /\ sc.result.last_error = Error("exception", k - 1)

\* With max_retries = 3 the third attempt raised an unexpected exception
\* while filling the input, after two attempts that raised one at the
\* frame, and the call has returned retries_exhausted.
C27_Witness ==
    /\ max_retries = 3
    /\ sc.pc = "returned"
    /\ trace.log = <<"frame_exception", "frame_exception", "input_exception">>
    /\ sc.result.retries_exhausted = "true"
    /\ sc.result.last_error = Error("exception", 2)

\* The attempts that ended after their navigation had succeeded.
PastNavigation == {i \in 1..Len(trace.log) : trace.log[i] # "navigation"}

\* C28: every attempt that got past its navigation has attempted the
\* return to the top-level document before it ended, whether it failed at
\* the frame, the input or the submit control, raised an unexpected
\* exception or read a result; when the return succeeded the driver is
\* outside the frame, and when it raised, the error is ignored: nothing
\* leaves the call, and the recorded error and the result are those of
\* the attempt.
C28_FrameContextReleased ==
    /\ trace.recoveries = Cardinality(PastNavigation)
    /\ (/\ trace.log # <<>>
        /\ Last(trace.log) # "navigation"
        /\ \/ trace.faults # {}
           \/ sc.pc = "returned" /\ sc.result.retries_exhausted = Absent) =>
          /\ driver.in_frame => "default_content" \in trace.faults
          /\ "default_content" \in trace.faults =>
                /\ sc.pc # "raised"
                /\ sc.pc = "returned" =>
                      sc.result = extract_result_data(trace.page)
                /\ sc.pc # "returned" =>
                      sc.last_error.msg = MessageOf(Last(trace.log))

\* Three attempts got past navigation: one timed out at the frame, one
\* raised while filling the input, one read a Registered page; each
\* attempted the return, the last return raised, and the call has
\* returned the record.
C28_Witness ==
    /\ sc.pc = "returned"
    /\ trace.log = <<"frame", "input_exception", "success">>
    /\ trace.recoveries = 3
    /\ "default_content" \in trace.faults
    /\ driver.in_frame
    /\ sc.result.success

\* C29: within an attempt the steps are taken in the order navigate,
\* enter the frame, fill the input, submit, read, each only after every
\* earlier step of the attempt succeeded: the input is filled inside the
\* frame, what is submitted is the identifier of the call, and the page
\* is read after that submission.  Every attempt, the first and each one
\* after a failure, starts with a navigation that loads a fresh page.
C29_StepOrder ==
    /\ [](sc.pc \in {"frame", "input", "submit", "read"} =>
              trace.navs = Len(trace.log) + 1)
    /\ [](sc.pc \in {"submit", "read"} =>
              driver.in_frame /\ driver.typed = sc.national_id)
    /\ [](sc.pc = "read" => driver.submitted = sc.national_id)
    /\ [][sc'.pc # sc.pc =>
            /\ sc.pc = "loop" => sc'.pc \in {"sleep", "navigate", "exhausted"}
            /\ sc.pc = "sleep" => sc'.pc = "navigate"
            /\ sc'.pc = "navigate" => sc.pc \in {"loop", "sleep"}
            /\ sc'.pc = "frame" =>
                  /\ sc.pc = "navigate"
                  /\ driver' = FreshPage
                  /\ trace'.navs = trace.navs + 1
            /\ sc'.pc = "input" => sc.pc = "frame" /\ driver'.in_frame
            /\ sc'.pc = "submit" => sc.pc = "input"
            /\ sc'.pc = "read" => sc.pc = "submit"
            /\ trace'.page # trace.page => sc.pc \in {"read", "returned"}]_vars

\* The second attempt of a call, after a first one that failed at the
\* submit control, has navigated, entered the frame, filled the input and
\* submitted, and is about to read the page.
C29_Witness ==
    /\ sc.pc = "read"
    /\ trace.log = <<"submit">>
    /\ trace.navs = 2
    /\ driver.in_frame
    /\ driver.submitted = sc.national_id

\* The positions of a call inside scrape_electoral_data.
InCall == {"loop", "sleep", "navigate", "frame", "input", "submit", "read",
           "exhausted"}
Scraping == {c \in Calls : call[c].pc = "scraping"}

\* C30: while several requests are in flight, the steps one call takes on
\* the shared browser are not interleaved with those of another: at most
\* one call is inside scrape_electoral_data, it is the task the event
\* loop runs, every change of the browser between its first and its last
\* step is its own, no other task moves meanwhile, the page it reads is
\* the answer to the identifier of its own request, and its response is
\* built from its own result.
C30_NoInterleaving ==
    /\ [](/\ Cardinality(Scraping) <= 1
          /\ sc.pc \in InCall =>
                /\ running # None
                /\ Scraping = {running}
                /\ sc.national_id = call[running].nid
          /\ sc.pc = "read" => driver.submitted = call[running].nid
          /\ (sent.kind = "response" /\ sent.outcome.type = "return") =>
                /\ sent.nid = sc.national_id
                /\ sent.outcome = OutcomeOf(sc))
    /\ [][/\ driver' # driver => running # None /\ sc.pc \in InCall
          /\ sc.pc \in InCall =>
                /\ running' \in {running, None}
                /\ \A d \in Calls \ {running} : call'[d] = call[d]
                /\ sc'.national_id = sc.national_id]_vars

\* Two requests with different identifiers are in flight: t2 is inside
\* scrape_electoral_data on its second attempt, about to read the page
\* its own identifier was submitted to, and t1 waits for the with-block.
C30_Witness ==
    /\ call["t1"].pc = "validated"
    /\ call["t2"].pc = "scraping"
    /\ call["t1"].nid # call["t2"].nid
    /\ sc.pc = "read"
    /\ Len(trace.log) = 1
    /\ driver.submitted = call["t2"].nid

C32_ClientIsolation ==
    [][lastrl'.kind = "decision" =>
          \A k \in Clients \ {lastrl'.client} :
              /\ rate_limit_store'[k] = rate_limit_store[k]
              /\ hist'[k] = hist[k]
              /\ check_rate_limit(rate_limit_store', k, now').allowed
                    = check_rate_limit(rate_limit_store, k, now).allowed]_vars

\* A request of ip1 has just been rejected, its window full, while ip2
\* has one admission stored and room for more.
C32_Witness ==
    /\ lastrl.kind = "decision"
    /\ lastrl.client = "ip1"
    /\ ~lastrl.allowed
    /\ Len(rate_limit_store["ip1"]) = RATE_LIMIT_REQUESTS
    /\ Len(rate_limit_store["ip2"]) = 1
    /\ check_rate_limit(rate_limit_store, "ip2", now).allowed

\* C36: a rejected request adds no timestamp: its only effect on the
\* client's window is that expired entries are dropped, an entry whose
\* timestamp is exactly now - RATE_LIMIT_WINDOW among them; so the window
\* holds admissions only, and the client is admitted again at the first
\* request after one of them has left the window.
C36_RejectionsNotRecorded ==
    /\ [][(lastrl'.kind = "decision" /\ ~lastrl'.allowed) =>
            /\ rate_limit_store'[lastrl'.client] =
                  SelectSeq(rate_limit_store[lastrl'.client],
                            LAMBDA ts : ts > now - RATE_LIMIT_WINDOW)
            /\ Len(rate_limit_store'[lastrl'.client]) = RATE_LIMIT_REQUESTS]_vars
    /\ [](lastrl.kind = "decision" =>
            /\ \A i \in 1..Len(rate_limit_store[lastrl.client]) :
                  rate_limit_store[lastrl.client][i]
                      > lastrl.at - RATE_LIMIT_WINDOW
            /\ lastrl.allowed <=>
                  Len(SelectSeq(lastrl.window,
                        LAMBDA ts : ts > lastrl.at - RATE_LIMIT_WINDOW))
                      < RATE_LIMIT_REQUESTS)
    /\ [](\A k \in Clients :
            hist[k] = SelectSeq(rate_limit_store[k],
                                LAMBDA ts : ts > now - RATE_LIMIT_WINDOW))

\* A client whose window was full is admitted at the instant its stored
\* admissions are exactly RATE_LIMIT_WINDOW old: all of them are dropped
\* and the window holds the new admission only.
C36_Witness ==
    /\ lastrl.kind = "decision"
    /\ lastrl.allowed
    /\ lastrl.stored = RATE_LIMIT_REQUESTS
    /\ lastrl.at = RATE_LIMIT_WINDOW
    /\ rate_limit_store[lastrl.client] = <<lastrl.at>>

\* C37: the first thing done for a request is the rate-limit check, and
\* an admitted request is recorded in the client's window then: before
\* its identifier is validated, before the scraper handle is looked at
\* and before a permit is taken.  So every answer other than 429, the
\* rejection of an invalid identifier, the 503 and the answer of a health
\* check among them, belongs to a request that has used one unit of the
\* quota; and a rate-limited request takes no permit, changes no state of
\* the scraper and is answered 429 at once.
C37_GateOrdering ==
    /\ [][\A c \in Calls :
            (call[c].pc = "idle" /\ call'[c] # call[c]) =>
                /\ lastrl'.kind = "decision"
                /\ lastrl'.allowed
                /\ call'[c].pc = "routed"
                /\ hist'[lastrl'.client] = Append(hist[lastrl'.client], now)
                /\ Last(rate_limit_store'[lastrl'.client]) = now
                /\ request_semaphore' = request_semaphore]_vars
    /\ [][lastv'.kind = "validation" =>
            call[lastv'.c].pc = "routed" /\ lastrl'.kind # "decision"]_vars
    /\ [][(sent'.kind = "response" /\ sent'.resp.code # 429) =>
            /\ call[sent'.c].pc \in {"routed", "validated", "scraping"}
            /\ hist' = hist
            /\ rate_limit_store' = rate_limit_store]_vars
    /\ [][\A c \in Calls :
            (~call[c].permit /\ call'[c].permit) =>
                call[c].pc = "validated"]_vars
    /\ [][(lastrl'.kind = "decision" /\ ~lastrl'.allowed) =>
            /\ sent'.kind = "response"
            /\ sent'.resp.code = 429
            /\ call' = call
            /\ hist' = hist
            /\ request_semaphore' = request_semaphore
            /\ sc' = sc /\ driver' = driver]_vars

\* Health checks alone have used up the quota of ip1: the last one has
\* just been answered and the window is full.
C37_Witness ==
    /\ sent.kind = "response"
    /\ sent.resp.kind = "health"
    /\ sent.resp.code = 200
    /\ Len(hist["ip1"]) = RATE_LIMIT_REQUESTS
    /\ ~check_rate_limit(rate_limit_store, "ip1", now).allowed

\* The rejection of an invalid identifier and the 503 each follow an
\* admission that stays in the window.
InvalidUsedQuota ==
    /\ sent.kind = "response"
    /\ sent.resp.code \in {400, 422}
    /\ Len(hist["ip1"]) = RATE_LIMIT_REQUESTS
UnavailableUsedQuota ==
    /\ sent.kind = "response"
    /\ sent.resp.code = 503
    /\ Len(hist["ip1"]) = RATE_LIMIT_REQUESTS

\* C38: a call that holds a permit is the task the event loop runs until
\* it has given the permit back: through the call into the scraper, its
\* waits and its backoff sleeps there is no point where another task
\* runs.  So at most one call holds a permit whatever the capacity is, all
\* but one permit are always free, and whenever a task gets to ask for a
\* permit every permit is free: no task ever waits on the semaphore.
C38_PermitHolderNeverYields ==
    /\ Cardinality(Holders) <= 1
    /\ request_semaphore >= MAX_CONCURRENT_REQUESTS - 1
    /\ \A c \in Calls : call[c].permit => running = c
    /\ sc.pc \in InCall => running # None /\ call[running].permit
    /\ running = None => request_semaphore = MAX_CONCURRENT_REQUESTS
    /\ \A c \in Calls : (call[c].pc = "validated" /\ running = None) =>
          ENABLED Enter(c)

\* A call sleeps between two attempts, holding the one permit in use,
\* while the other request has been validated and has not asked for a
\* permit yet.
C38_Witness ==
    /\ sc.pc = "sleep"
    /\ call["t1"].pc = "scraping" /\ call["t1"].permit
    /\ call["t2"].pc = "validated" /\ ~call["t2"].permit
    /\ request_semaphore = MAX_CONCURRENT_REQUESTS - 1

(***************************************************************************)
(* The field extraction.                                                   *)
(***************************************************************************)
OnlyAsciiDigits(s) ==
    \A i \in 1..Len(s) : \E k \in 1..10 : s[i] = EnglishValues[k]
HoldsOtherDigit(s) == \E i \in 1..Len(s) : s[i] = "fa3"

\* C33: a field that holds a number is empty or made of ASCII digits only,
\* whatever the capture it is taken from.
C33_NumericFieldAsciiOnly ==
    fx.kind = "number" => OnlyAsciiDigits(fx.field)

\* The same for the captures whose decimal digits are all ASCII or
\* Arabic-Indic: there the field is the first run of digits, in ASCII.
NumericFieldOfKnownDigits ==
    (fx.kind = "number" /\ ~HoldsOtherDigit(fx.capture)) =>
        /\ OnlyAsciiDigits(fx.field)
        /\ (fx.field = <<>>) = (\A i \in 1..Len(fx.capture) :
                                    ~IsDecimal(fx.capture[i]))
NumericFieldFromGlyphs ==
    /\ fx.kind = "number"
    /\ fx.capture = <<"ar3", "ar5">>
    /\ fx.field = <<"3", "5">>

\* C34: for each of the five fields, when the structural strategy gives no
\* value (it raises, or finds the node and gets nothing from its container)
\* the textual strategy is tried, so a field whose label and value are in
\* the page text is not left empty.
C34_TextualFallback ==
    fx.kind = "record" =>
        \A f \in RecordFields :
            (fx.page.structural[f] # "value" /\ f \in fx.page.textual)
                => fx.data[f] = "text value"

\* What the code does: the fallback after a lookup that raised, for the
\* five fields; after a node without a value, for the two numbers only.
FallbackAfterRaise ==
    fx.kind = "record" =>
        \A f \in RecordFields :
            /\ (fx.page.structural[f] = "raises" /\ f \in fx.page.textual)
                   => fx.data[f] = "text value"
            /\ (fx.page.structural[f] = "no_value" /\ f \in fx.page.textual
                    /\ f \in NumericFields) => fx.data[f] = "text value"
            /\ (fx.page.structural[f] = "no_value" /\ f \in TextFields)
                   => fx.data[f] = ""
NodeWithoutValueLeftEmpty ==
    /\ fx.kind = "record"
    /\ fx.page.structural["electoral_center"] = "no_value"
    /\ "electoral_center" \in fx.page.textual
    /\ fx.data["electoral_center"] = ""

\* The page in which the lookups of field f do not raise.
WithoutFailure(page, f) == [page EXCEPT !.structural[f] = "value"]

\* C35: a lookup that raises while one field is extracted leaves that field
\* empty or to the textual strategy, leaves each other field as it is
\* extracted when the lookup does not raise, and the record is still
\* returned as a success.
C35_FieldIndependence ==
    fx.kind = "record" =>
        /\ fx.success
        /\ \A f \in RecordFields :
               fx.page.structural[f] = "raises" =>
                   /\ fx.data[f] = Textual(f, fx.page)
                   /\ \A g \in RecordFields \ {f} :
                          fx.data[g] =
                              extract_fields(WithoutFailure(fx.page, f))[g]
C35_Witness ==
    /\ fx.kind = "record"
    /\ fx.success
    /\ fx.page.structural["subcommittee_number"] = "raises"
    /\ "subcommittee_number" \notin fx.page.textual
    /\ fx.data["subcommittee_number"] = ""
    /\ fx.page.structural["electoral_center"] = "value"
    /\ "electoral_center" \in fx.page.textual
    /\ fx.data["electoral_center"] = "container value"

(***************************************************************************)
(* The statuses.                                                           *)
(***************************************************************************)
\* C39: every successful result of scrape_electoral_data carries one of
\* the statuses success, underage, not_registered; the handler never
\* answers 'Unknown status', and every successful lookup response carries
\* one of registered, not_registered, underage, out_of_district, the one
\* that belongs to the status of the result.
C39_StatusClosure ==
    /\ (sc.pc = "returned" /\ sc.result.success) =>
           sc.result.status \in {"success", "underage", "not_registered"}
    /\ sent.kind = "response" =>
           /\ sent.resp.error # "Unknown status"
           /\ sent.resp.success =>
                 /\ sent.outcome.type = "return"
                 /\ sent.outcome.success
                 /\ sent.resp.status \in {"registered", "not_registered",
                                          "underage", "out_of_district"}
                 /\ sent.resp.status \in {"registered", "out_of_district"}
                        <=> sent.outcome.status = "success"
                 /\ sent.resp.status \in {"not_registered", "underage"}
                        => sent.resp.status = sent.outcome.status
C39_Witness ==
    /\ sent.kind = "response"
    /\ sent.resp.success
    /\ sent.resp.status = "underage"
    /\ sc.pc = "returned"
    /\ sc.result.status = "underage"
OutOfDistrictAnswered ==
    /\ sent.kind = "response"
    /\ sent.resp.status = "out_of_district"
    /\ sc.result.district = "qism al-manakh"

(***************************************************************************)
(* No attempt configured.                                                  *)
(***************************************************************************)
\* C40: with max_retries = 0 a call touches the browser at no point and
\* does not sleep, and returns the failure with retries_exhausted true
\* that states 0 attempts and the last error None; with max_retries >= 1
\* the last error of a retries-exhausted result was recorded by an attempt
\* of the call, its last one.
C40_ZeroAttempts ==
    /\ max_retries = 0 =>
          /\ driver = FreshPage
          /\ trace.navs = 0 /\ trace.recoveries = 0
          /\ trace.log = <<>> /\ trace.sleeps = <<>>
          /\ trace.page = NoPage
          /\ sc.pc \in {"not_called", "loop", "exhausted", "returned"}
          /\ sc.pc = "returned" =>
                /\ ~sc.result.success
                /\ sc.result.retries_exhausted = "true"
                /\ sc.result.attempts = 0
                /\ sc.result.last_error = NoError
    /\ (max_retries >= 1 /\ sc.pc = "returned"
            /\ sc.result.retries_exhausted = "true") =>
          /\ sc.result.last_error # NoError
          /\ sc.result.last_error.at = max_retries - 1
          /\ Len(trace.log) = max_retries
          /\ trace.navs = max_retries
C40_Witness ==
    /\ max_retries = 0
    /\ sc.pc = "returned"
    /\ sc.result.retries_exhausted = "true"
    /\ sc.result.last_error = NoError
ExhaustedAfterAttempts ==
    /\ max_retries = 2
    /\ sc.pc = "returned"
    /\ sc.result.retries_exhausted = "true"
    /\ sc.result.last_error.at = 1

====
